---- MODULE Spec2Model ----
(***************************************************************************)
(* SHEILD safety-scoring engine: the H3 safety grid                        *)
(* (Map_backend/database/h3_processing.py, database/h3_processing.py) and  *)
(* the route scorer and ranker (Map_backend/map/route_processer.py,        *)
(* map/route_processer.py).                                                *)
(*                                                                         *)
(* Python floats are modelled as exact rationals <<numerator, denominator>>*)
(* in lowest terms with a positive denominator, so that two equal values   *)
(* are equal tuples.                                                       *)
(***************************************************************************)
EXTENDS Integers, Sequences, FiniteSets, TLC

VARIABLES
    incidents,          \* rows of table incident_details, in row order
    h3_safety_scores,   \* H3SafetyProcessor.h3_safety_scores
    h3_table,           \* table h3_safety_scores of the database
    h3_scores_cache,    \* RouteProcessor._h3_scores_cache (class attribute)
    call,               \* the operation called last, with its arguments
    ret,                \* what that call returned or raised
    ors_api_key,        \* MapConfig().ors_api_key, read from the environment
    ors_cache,          \* the lru_cache of RouteAPIClient._cached_ors_routes
    provider,           \* how openrouteservice answers a request now
    fetches,            \* requests posted to openrouteservice so far
    instances           \* RouteProcessor() under construction, per thread

\* the serving process beyond the grid: the route client and the threads
serving_state == <<ors_api_key, ors_cache, provider, fetches, instances>>

vars == <<incidents, h3_safety_scores, h3_table, h3_scores_cache, call, ret,
          serving_state>>

----------------------------------------------------------------------------
(* Bounds of the model *)

MaxCount == 12          \* largest incident_count given to calculate_safety_score
MaxSeverity == 20       \* largest severity given to calculate_safety_score
MaxIncidents == 2       \* most rows of incident_details
MaxRouteLen == 3        \* most coordinates of a route
MaxRoutes == 3          \* most routes handed to get_route_recommendation
MaxCandidates == 2      \* most raw routes of a served request
MaxThreads == 2         \* most threads constructing a RouteProcessor at once

----------------------------------------------------------------------------
(* Float arithmetic, exact *)

Abs(x) == IF x < 0 THEN -x ELSE x

RECURSIVE GCD(_, _)
GCD(a, b) == IF b = 0 THEN a ELSE GCD(b, a % b)

Norm(n, d) == LET g == GCD(Abs(n), d) IN <<n \div g, d \div g>>

R(n) == <<n, 1>>
RAdd(a, b) == Norm(a[1] * b[2] + b[1] * a[2], a[2] * b[2])
RSub(a, b) == Norm(a[1] * b[2] - b[1] * a[2], a[2] * b[2])
RMul(a, b) == Norm(a[1] * b[1], a[2] * b[2])
RDivInt(a, k) == Norm(a[1], a[2] * k)
RLt(a, b) == a[1] * b[2] < b[1] * a[2]
RLe(a, b) == a[1] * b[2] <= b[1] * a[2]

\* Python's min(a, b) and max(a, b): the first argument wins a tie
PyMin(a, b) == IF RLt(b, a) THEN b ELSE a
PyMax(a, b) == IF RLt(a, b) THEN b ELSE a

----------------------------------------------------------------------------
(* SafetyScoreCalculator.calculate_safety_score *)

\* a slip that saturates the severity terms like the count term
calculate_safety_score_saturating(incident_count, avg_severity, max_severity) ==
    LET incident_weight == PyMin(Norm(incident_count, 10), R(1))
        severity_weight == PyMin(RDivInt(avg_severity, 10), R(1))
        max_severity_penalty == PyMin(RDivInt(max_severity, 10), R(1))
        raw_score == RSub(R(100),
                          RAdd(RAdd(RMul(incident_weight, R(40)),
                                    RMul(severity_weight, R(35))),
                               RMul(max_severity_penalty, R(25))))
    IN  PyMax(R(0), PyMin(R(100), raw_score))

\* a slip that drops the lower clamp
calculate_safety_score_unclamped(incident_count, avg_severity, max_severity) ==
    LET incident_weight == PyMin(Norm(incident_count, 10), R(1))
        severity_weight == RDivInt(avg_severity, 10)
        max_severity_penalty == RDivInt(max_severity, 10)
        raw_score == RSub(R(100),
                          RAdd(RAdd(RMul(incident_weight, R(40)),
                                    RMul(severity_weight, R(35))),
                               RMul(max_severity_penalty, R(25))))
    IN  PyMin(R(100), raw_score)

\* incident_count is an integer, avg_severity and max_severity are floats
calculate_safety_score(incident_count, avg_severity, max_severity) ==
    LET incident_weight == PyMin(Norm(incident_count, 10), R(1))
        severity_weight == RDivInt(avg_severity, 10)
        max_severity_penalty == RDivInt(max_severity, 10)
        raw_score == RSub(R(100),
                          RAdd(RAdd(RMul(incident_weight, R(40)),
                                    RMul(severity_weight, R(35))),
                               RMul(max_severity_penalty, R(25))))
    IN  PyMax(R(0), PyMin(R(100), raw_score))

----------------------------------------------------------------------------
(* Values shared by the specifications *)

EmptyDict == [k \in {} |-> {}]          \* the Python dict {}
NoTable == [exists |-> FALSE]           \* the table is not in the database
NoCall == [op |-> "none"]
NoRet == [status |-> "none"]
Returned(v) == [status |-> "ok", value |-> v]
Raised == [status |-> "error"]

----------------------------------------------------------------------------
(* Locations and H3IndexManager                                            *)
(* A location is an abstract id standing for a (lat, lon) pair.  Ids 2c-1  *)
(* and 2c lie in cell c.  NaN stands for a coordinate h3.latlng_to_cell    *)
(* rejects (a non-finite one); the call then raises.                       *)

NaN == -1

ValidPoint(p) == p # NaN

\* h3.latlng_to_cell(lat, lon, resolution), defined where it does not raise
latlon_to_h3(p) == (p + 1) \div 2

\* h3.cell_to_latlng(h3_index): the centre of the cell
h3_to_latlon(c) == 2 * c

----------------------------------------------------------------------------
(* IncidentDataProcessor.preprocess_incident_data *)

\* a slip: a missing hour falls through to night
time_period_of_no_unknown(hour) ==
    IF 6 <= hour /\ hour < 22 THEN "day" ELSE "night"

\* hour is the hour of time_from, NaN where time_from is missing or unparseable
time_period_of(hour) ==
    IF hour # NaN /\ 6 <= hour /\ hour < 22 THEN "day"
    ELSE IF hour # NaN THEN "night"
    ELSE "unknown"

\* df.apply(latlon_to_h3) raises as soon as one row's coordinates are rejected
preprocess_raises(df) == \E i \in 1 .. Len(df) : ~ValidPoint(df[i].point)

preprocess_incident_data(df) ==
    [i \in 1 .. Len(df) |->
        [point |-> df[i].point,
         severity |-> df[i].severity,
         h3_index |-> latlon_to_h3(df[i].point),
         time_period |-> time_period_of(df[i].hour)]]

----------------------------------------------------------------------------
(* SafetyScoreCalculator.calculate_period_scores *)

RECURSIVE SumSeverity(_)
SumSeverity(rows) ==
    IF rows = <<>> THEN 0 ELSE rows[1].severity + SumSeverity(Tail(rows))

\* an aggregation slip: the first severity of the group ('first' for 'max')
MaxSeverityOfFirst(rows) == rows[1].severity

RECURSIVE MaxSeverityOf(_)
MaxSeverityOf(rows) ==
    IF Len(rows) = 1 THEN rows[1].severity
    ELSE LET m == MaxSeverityOf(Tail(rows))
         IN  IF rows[1].severity > m THEN rows[1].severity ELSE m

\* the rows of df[df['time_period'] == time_period], in order
PeriodData(df, time_period) ==
    SelectSeq(df, LAMBDA r : r.time_period = time_period)

\* one group of groupby('h3_index'), in row order
GroupRows(period_data, h3_index) ==
    SelectSeq(period_data, LAMBDA r : r.h3_index = h3_index)

calculate_period_scores(df, time_period) ==
    LET period_data == PeriodData(df, time_period)
        groups == {period_data[i].h3_index : i \in 1 .. Len(period_data)}
    IN  [h3_index \in groups |->
            LET rows == GroupRows(period_data, h3_index)
                incident_count == Len(rows)
                avg_severity == Norm(SumSeverity(rows), incident_count)
                max_severity == R(MaxSeverityOf(rows))
            IN  [safety_score |-> calculate_safety_score(incident_count,
                                                         avg_severity,
                                                         max_severity),
                 incident_count |-> incident_count,
                 avg_severity |-> avg_severity,
                 max_severity |-> max_severity,
                 lat |-> rows[1].point,
                 lon |-> rows[1].point]]

----------------------------------------------------------------------------
(* H3SafetyProcessor: the grid *)

Periods == {"day", "night", "overall"}

DefaultDay == R(75)
DefaultNight == R(60)
DefaultOverall == <<135, 2>>

\* d.get(key, {}) on a dict of dicts
DictGet(d, key) == IF key \in DOMAIN d THEN d[key] ELSE EmptyDict

\* d.get(key, default) on a record
FieldGet(d, key, default) == IF key \in DOMAIN d THEN d[key] ELSE default

\* the overall record of one cell, lines 222-237
\* an averaging slip: the night default used for a missing day score
OverallEntrySwappedDefault(day, night, h3_index) ==
    LET day_score == FieldGet(DictGet(day, h3_index), "safety_score", DefaultNight)
        night_score == FieldGet(DictGet(night, h3_index), "safety_score", DefaultNight)
        coords == IF h3_index \in DOMAIN day THEN day[h3_index]
                  ELSE DictGet(night, h3_index)
    IN  [safety_score |-> RDivInt(RAdd(day_score, night_score), 2),
         day_score |-> day_score,
         night_score |-> night_score,
         lat |-> coords.lat,
         lon |-> coords.lon]

\* an averaging slip: the sum of the two scores, not halved
OverallEntryNotHalved(day, night, h3_index) ==
    LET day_score == FieldGet(DictGet(day, h3_index), "safety_score", DefaultDay)
        night_score == FieldGet(DictGet(night, h3_index), "safety_score", DefaultNight)
        coords == IF h3_index \in DOMAIN day THEN day[h3_index]
                  ELSE DictGet(night, h3_index)
    IN  [safety_score |-> RAdd(day_score, night_score),
         day_score |-> day_score,
         night_score |-> night_score,
         lat |-> coords.lat,
         lon |-> coords.lon]

OverallEntry(day, night, h3_index) ==
    LET day_score == FieldGet(DictGet(day, h3_index), "safety_score", DefaultDay)
        night_score == FieldGet(DictGet(night, h3_index), "safety_score", DefaultNight)
        \* a non-empty dict is truthy: day's record if the cell is in day
        coords == IF h3_index \in DOMAIN day THEN day[h3_index]
                  ELSE DictGet(night, h3_index)
        centre == ~("lat" \in DOMAIN coords) \/ coords.lat = 0
                  \/ ~("lon" \in DOMAIN coords) \/ coords.lon = 0
    IN  [safety_score |-> RDivInt(RAdd(day_score, night_score), 2),
         day_score |-> day_score,
         night_score |-> night_score,
         lat |-> IF centre THEN h3_to_latlon(h3_index) ELSE coords.lat,
         lon |-> IF centre THEN h3_to_latlon(h3_index) ELSE coords.lon]

\* a slip in the cell union: only the cells of the day table
calculate_h3_safety_scores_day_cells(rows) ==
    LET df == preprocess_incident_data(rows)
        day == calculate_period_scores(df, "day")
        night == calculate_period_scores(df, "night")
        all_h3_indices == DOMAIN day
    IN  [day |-> day,
         night |-> night,
         overall |-> [h3_index \in all_h3_indices |->
                          OverallEntry(day, night, h3_index)]]

\* the grid calculate_h3_safety_scores builds from the incident rows
\* (where preprocessing does not raise)
calculate_h3_safety_scores(rows) ==
    LET df == preprocess_incident_data(rows)
        day == calculate_period_scores(df, "day")
        night == calculate_period_scores(df, "night")
        all_h3_indices == DOMAIN day \cup DOMAIN night
    IN  [day |-> day,
         night |-> night,
         overall |-> [h3_index \in all_h3_indices |->
                          OverallEntry(day, night, h3_index)]]

\* the grid a failed load or build is replaced by
FallbackScores ==
    [day |-> EmptyDict, night |-> EmptyDict, overall |-> EmptyDict]

\* a tuning slip: an overall default that is not the mean of the other two
default_scores_overall_70(time_period) ==
    IF time_period = "day" THEN DefaultDay
    ELSE IF time_period = "night" THEN DefaultNight
    ELSE R(70)

default_scores(time_period) ==
    IF time_period = "day" THEN DefaultDay
    ELSE IF time_period = "night" THEN DefaultNight
    ELSE DefaultOverall

\* a lookup slip: the overall default for every period without an entry
get_safety_score_one_default(scores, p, time_period) ==
    LET h3_index == latlon_to_h3(p)
    IN  IF time_period \in DOMAIN scores
           /\ h3_index \in DOMAIN scores[time_period]
        THEN scores[time_period][h3_index].safety_score
        ELSE DefaultOverall

\* get_safety_score_for_location on grid `scores`, defined for a valid point
get_safety_score_for_location(scores, p, time_period) ==
    LET h3_index == latlon_to_h3(p)
    IN  IF time_period \in DOMAIN scores
           /\ h3_index \in DOMAIN scores[time_period]
        THEN scores[time_period][h3_index].safety_score
        ELSE default_scores(time_period)

----------------------------------------------------------------------------
(* H3DatabaseManager.save_h3_scores_to_database and                        *)
(* H3SafetyProcessor.load_h3_scores_from_database                          *)

Resolution == 9

NoCache == [cached |-> FALSE]           \* _h3_scores_cache is None
Cached(scores) == [cached |-> TRUE, scores |-> scores]

Table(rows) == [exists |-> TRUE, rows |-> rows]

\* the rows to_sql(if_exists='replace') writes, keyed by h3_index; the table
\* is created anew from the frame, whose score columns are floats
InsertData(scores) ==
    [h3_index \in DOMAIN scores["overall"] |->
        LET data == scores["overall"][h3_index]
            day_data == DictGet(scores["day"], h3_index)
            night_data == DictGet(scores["night"], h3_index)
        IN  [latitude |-> data.lat,
             longitude |-> data.lon,
             overall_score |-> data.safety_score,
             day_score |-> data.day_score,
             night_score |-> data.night_score,
             incident_count_day |-> FieldGet(day_data, "incident_count", 0),
             incident_count_night |-> FieldGet(night_data, "incident_count", 0),
             resolution |-> Resolution]]

\* save raises KeyError on a processor whose grid is still {}
save_raises(scores) == ~({"overall", "day", "night"} \subseteq DOMAIN scores)

\* a slip: the day and night records take the overall score
load_h3_scores_overall_only(rows) ==
    [overall |-> [h3_index \in DOMAIN rows |->
                    [safety_score |-> rows[h3_index].overall_score,
                     day_score |-> rows[h3_index].day_score,
                     night_score |-> rows[h3_index].night_score,
                     lat |-> rows[h3_index].latitude,
                     lon |-> rows[h3_index].longitude]],
     day |-> [h3_index \in DOMAIN rows |->
                    [safety_score |-> rows[h3_index].overall_score,
                     lat |-> rows[h3_index].latitude,
                     lon |-> rows[h3_index].longitude]],
     night |-> [h3_index \in DOMAIN rows |->
                    [safety_score |-> rows[h3_index].overall_score,
                     lat |-> rows[h3_index].latitude,
                     lon |-> rows[h3_index].longitude]]]

\* the grid load_h3_scores_from_database makes of the table's rows
load_h3_scores_from_database(rows) ==
    [overall |-> [h3_index \in DOMAIN rows |->
                    [safety_score |-> rows[h3_index].overall_score,
                     day_score |-> rows[h3_index].day_score,
                     night_score |-> rows[h3_index].night_score,
                     lat |-> rows[h3_index].latitude,
                     lon |-> rows[h3_index].longitude]],
     day |-> [h3_index \in DOMAIN rows |->
                    [safety_score |-> rows[h3_index].day_score,
                     lat |-> rows[h3_index].latitude,
                     lon |-> rows[h3_index].longitude]],
     night |-> [h3_index \in DOMAIN rows |->
                    [safety_score |-> rows[h3_index].night_score,
                     lat |-> rows[h3_index].latitude,
                     lon |-> rows[h3_index].longitude]]]

----------------------------------------------------------------------------
(* Specification Spec: the life of the grid.  The incident table is drawn  *)
(* by Init; a processor builds, saves and loads the grid, and route        *)
(* processors are constructed.  db_ok = FALSE is a database call that      *)
(* raises (connection lost, query refused).                                *)

SeqUpTo(S, n) == UNION {[1 .. k -> S] : k \in 0 .. n}

NoKey == ""                 \* OPENROUTESERVICE_API_KEY is not set

Threads == 1 .. MaxThreads

\* a thread that has not entered RouteProcessor.__init__
NotConstructing == [pc |-> "start", scores |-> EmptyDict, loaded |-> FALSE]

\* a process that has no key, has fetched nothing and constructs nothing
ServingStart ==
    /\ ors_api_key = NoKey
    /\ ors_cache = <<>>
    /\ provider = "up"
    /\ fetches = 0
    /\ instances = [t \in Threads |-> NotConstructing]

IncidentPoints == {NaN, 1, 2, 3}
IncidentHours == {NaN, 3, 12}
Severities == {2, 40}
IncidentRows == [point : IncidentPoints, hour : IncidentHours, severity : Severities]

Init ==
    /\ incidents \in SeqUpTo(IncidentRows, MaxIncidents)
    /\ ServingStart
    /\ h3_safety_scores = EmptyDict
    /\ h3_table = NoTable
    /\ h3_scores_cache = NoCache
    /\ call = NoCall
    /\ ret = NoRet

\* call is the request a specification serves and ret its result on the
\* current grid; an operation on the grid drops the result, and the request
\* is then served again
Forget == ret' = NoRet /\ UNCHANGED call

\* H3SafetyProcessor.__init__: a new processor starts from {}
NewProcessor ==
    /\ h3_safety_scores # EmptyDict
    /\ h3_safety_scores' = EmptyDict
    /\ UNCHANGED <<incidents, serving_state, h3_table, h3_scores_cache>>
    /\ Forget

\* H3SafetyProcessor.calculate_h3_safety_scores
Calculate ==
    \E db_ok \in BOOLEAN :
        /\ IF db_ok /\ ~preprocess_raises(incidents)
           THEN h3_safety_scores' = calculate_h3_safety_scores(incidents)
           ELSE UNCHANGED h3_safety_scores
        /\ UNCHANGED <<incidents, serving_state, h3_table, h3_scores_cache>>
        /\ Forget

\* H3SafetyProcessor.save_h3_scores_to_database
Save ==
    \E db_ok \in BOOLEAN :
        /\ h3_table' =
              IF ~db_ok THEN h3_table
              ELSE IF save_raises(h3_safety_scores)
                   \* CREATE TABLE IF NOT EXISTS ran before the KeyError
                   THEN (IF h3_table.exists THEN h3_table ELSE Table(EmptyDict))
                   ELSE Table(InsertData(h3_safety_scores))
        /\ UNCHANGED <<incidents, serving_state, h3_safety_scores, h3_scores_cache>>
        /\ Forget

load_raises(db_ok) == ~db_ok \/ ~h3_table.exists

\* H3SafetyProcessor.load_h3_scores_from_database
Load ==
    \E db_ok \in BOOLEAN :
        /\ IF load_raises(db_ok)
           THEN UNCHANGED h3_safety_scores
           ELSE h3_safety_scores' = load_h3_scores_from_database(h3_table.rows)
        /\ UNCHANGED <<incidents, serving_state, h3_table, h3_scores_cache>>
        /\ Forget

\* RouteProcessor.__init__ (Map_backend): a new processor, loaded once per
\* process through the class-level cache
RouteProcessorInit ==
    \E db_ok \in BOOLEAN :
        /\ IF h3_scores_cache = NoCache
           THEN /\ h3_safety_scores' =
                      IF load_raises(db_ok) THEN FallbackScores
                      ELSE load_h3_scores_from_database(h3_table.rows)
                /\ h3_scores_cache' = Cached(h3_safety_scores')
           ELSE /\ h3_safety_scores' = h3_scores_cache.scores
                /\ UNCHANGED h3_scores_cache
        /\ UNCHANGED <<incidents, serving_state, h3_table>>
        /\ Forget

\* RouteProcessor.__init__ (map/route_processer.py): builds the grid anew
LegacyRouteProcessorInit ==
    \E db_ok \in BOOLEAN :
        /\ h3_safety_scores' =
              IF db_ok /\ ~preprocess_raises(incidents)
              THEN calculate_h3_safety_scores(incidents)
              ELSE FallbackScores
        /\ UNCHANGED <<incidents, serving_state, h3_table, h3_scores_cache>>
        /\ Forget

Next ==
    \/ NewProcessor
    \/ Calculate
    \/ Save
    \/ Load
    \/ RouteProcessorInit
    \/ LegacyRouteProcessorInit

Spec == Init /\ [][Next]_vars

----------------------------------------------------------------------------
(* Claims on the grid, checked under Spec *)

\* every score a grid stores: safety_score of each period's records, and the
\* day_score and night_score copied into the overall records
StoredScores(scores) ==
    UNION {{scores[tp][c].safety_score : c \in DOMAIN scores[tp]} :
              tp \in DOMAIN scores}
    \cup (IF "overall" \in DOMAIN scores
          THEN {scores["overall"][c].day_score : c \in DOMAIN scores["overall"]}
               \cup {scores["overall"][c].night_score : c \in DOMAIN scores["overall"]}
          ELSE {})

InRange(x) == RLe(R(0), x) /\ RLe(x, R(100))

\* C3: in every grid reached by the build, by save followed by load, or by
\* the empty fallback installed when loading fails, every stored day, night
\* and overall score of every cell lies in [0, 100].
C3_GridScoresInRange ==
    /\ \A x \in StoredScores(h3_safety_scores) : InRange(x)
    /\ h3_scores_cache.cached =>
           \A x \in StoredScores(h3_scores_cache.scores) : InRange(x)

\* a grid as load_h3_scores_from_database leaves it: day records for every
\* cell, none with an incident_count
IsLoadedGrid(scores) ==
    /\ DOMAIN scores = Periods
    /\ DOMAIN scores["overall"] # {}
    /\ DOMAIN scores["day"] = DOMAIN scores["overall"]
    /\ \A c \in DOMAIN scores["day"] : "incident_count" \notin DOMAIN scores["day"][c]

\* C3 witness: a grid that went through save and load holds a score clamped
\* to 0 (a severity of 40) next to an overall score above 0.
C3_Witness ==
    /\ IsLoadedGrid(h3_safety_scores)
    /\ h3_table.exists
    /\ R(0) \in StoredScores(h3_safety_scores)
    /\ \E c \in DOMAIN h3_safety_scores["overall"] :
           RLt(R(0), h3_safety_scores["overall"][c].safety_score)

\* the cells with at least one incident of the period, from the table
CellsWith(time_period) ==
    {latlon_to_h3(incidents[i].point) :
        i \in {j \in 1 .. Len(incidents) :
                  time_period_of(incidents[j].hour) = time_period}}

\* the grid is the one the build makes of the incident table
AfterBuild ==
    /\ ~preprocess_raises(incidents)
    /\ DOMAIN h3_safety_scores = Periods
    /\ h3_safety_scores = calculate_h3_safety_scores(incidents)

\* C5: after the build, a cell with only day incidents has overall
\* (day_score + 60) / 2, a cell with only night incidents (75 + night_score) / 2,
\* a cell with both (day_score + night_score) / 2, and no cell with neither
\* is in the grid.
C5_OverallOfBuild ==
    AfterBuild =>
        \A c \in DOMAIN h3_safety_scores["overall"] :
            LET overall == h3_safety_scores["overall"][c].safety_score
                in_day == c \in CellsWith("day")
                in_night == c \in CellsWith("night")
                day_score == h3_safety_scores["day"][c].safety_score
                night_score == h3_safety_scores["night"][c].safety_score
            IN  /\ in_day \/ in_night
                /\ in_day /\ ~in_night =>
                       RMul(R(2), overall) = RAdd(day_score, R(60))
                /\ ~in_day /\ in_night =>
                       RMul(R(2), overall) = RAdd(R(75), night_score)
                /\ in_day /\ in_night =>
                       RMul(R(2), overall) = RAdd(day_score, night_score)

\* C5 witness: the built grid holds a day-only cell while another cell of
\* the table has only incidents of unknown time and is not in the grid.
C5_Witness ==
    /\ AfterBuild
    /\ \E c \in DOMAIN h3_safety_scores["overall"] :
           c \in CellsWith("day") /\ c \notin CellsWith("night")
    /\ \E c \in CellsWith("unknown") :
           c \notin DOMAIN h3_safety_scores["overall"]

\* points of every cell an incident can fall in, and of a cell none does
ProbePoints == {1, 2, 3, 4, 5}

ProbePeriods == Periods \cup {"evening"}

\* |a - b| <= 0.01
Within001(a, b) ==
    LET d == RSub(a, b) IN RLe(<<Abs(d[1]), d[2]>>, <<1, 100>>)

\* C14: for every built grid g, saving g and then loading yields a grid whose
\* lookup result equals g's lookup result (within 0.01) for every cell of g
\* and every bucket, including cells that had data in only one of day/night,
\* and for cells absent from g.
C14_RoundTripLookup ==
    IsLoadedGrid(h3_safety_scores) =>
        \A p \in ProbePoints, time_period \in ProbePeriods :
            Within001(get_safety_score_for_location(h3_safety_scores,
                                                    p, time_period),
                      get_safety_score_for_location(
                          calculate_h3_safety_scores(incidents),
                          p, time_period))

\* C14 witness: a loaded grid holds a cell that had night incidents only and
\* a cell that had day incidents only.
C14_Witness ==
    /\ IsLoadedGrid(h3_safety_scores)
    /\ CellsWith("night") \ CellsWith("day") # {}
    /\ CellsWith("day") \ CellsWith("night") # {}
    /\ CellsWith("day") \cup CellsWith("night") = DOMAIN h3_safety_scores["day"]

\* C25: in every grid reached by the build, or by the build followed by save
\* and load, and for every point, in a cell of the grid or not, the overall
\* lookup equals (day lookup + night lookup) / 2.
C25_OverallLookupIsMean ==
    AfterBuild \/ IsLoadedGrid(h3_safety_scores) =>
        \A p \in ProbePoints :
            RMul(R(2), get_safety_score_for_location(h3_safety_scores,
                                                     p, "overall"))
                = RAdd(get_safety_score_for_location(h3_safety_scores, p, "day"),
                       get_safety_score_for_location(h3_safety_scores, p, "night"))

\* C25 witness: a loaded grid in which a probed cell had night incidents
\* only, so that its day lookup is 75 and its overall lookup is not the
\* default, while another probed cell is not in the grid.
C25_Witness ==
    /\ IsLoadedGrid(h3_safety_scores)
    /\ \E p \in ProbePoints :
           /\ latlon_to_h3(p) \in CellsWith("night") \ CellsWith("day")
           /\ get_safety_score_for_location(h3_safety_scores, p, "day") = DefaultDay
           /\ get_safety_score_for_location(h3_safety_scores, p, "overall")
                  # DefaultOverall
    /\ \E p \in ProbePoints :
           latlon_to_h3(p) \notin DOMAIN h3_safety_scores["overall"]

\* C30: the persisted per-cell incident counts survive any sequence of save
\* and load operations: for every cell of the table, the incident_count_day
\* and incident_count_night that save(load(save(g))) writes equal those that
\* save(g) writes for the built grid g.
C30_IncidentCountsSurvive ==
    h3_table.exists /\ ~preprocess_raises(incidents) =>
        LET saved == InsertData(calculate_h3_safety_scores(incidents))
        IN  \A c \in DOMAIN h3_table.rows :
                /\ c \in DOMAIN saved
                /\ h3_table.rows[c].incident_count_day
                       = saved[c].incident_count_day
                /\ h3_table.rows[c].incident_count_night
                       = saved[c].incident_count_night

----------------------------------------------------------------------------
(* Order independence of the build *)

\* the scores of a grid, without the anchor coordinates
ScoresOf(scores) ==
    [tp \in DOMAIN scores |->
        [c \in DOMAIN scores[tp] |->
            IF tp = "overall"
            THEN <<scores[tp][c].safety_score, scores[tp][c].day_score,
                   scores[tp][c].night_score>>
            ELSE <<scores[tp][c].safety_score>>]]

\* the incident table in another order
Orders(n) ==
    {f \in [1 .. n -> 1 .. n] : \A i, j \in 1 .. n : f[i] = f[j] => i = j}

Permuted(rows, f) == [i \in 1 .. Len(rows) |-> rows[f[i]]]

\* the rows at the positions S, in order
RECURSIVE Restrict(_, _, _)
Restrict(rows, S, i) ==
    IF i > Len(rows) THEN <<>>
    ELSE (IF i \in S THEN <<rows[i]>> ELSE <<>>) \o Restrict(rows, S, i + 1)

\* count, severity sum and max of one cell and period over part of the table
PartialAggregate(rows, time_period, c) ==
    LET g == GroupRows(PeriodData(preprocess_incident_data(rows), time_period), c)
    IN  IF g = <<>> THEN [count |-> 0]
        ELSE [count |-> Len(g), sum |-> SumSeverity(g), max |-> MaxSeverityOf(g)]

MergeAggregates(a, b) ==
    IF a.count = 0 THEN b
    ELSE IF b.count = 0 THEN a
    ELSE [count |-> a.count + b.count,
          sum |-> a.sum + b.sum,
          max |-> IF a.max > b.max THEN a.max ELSE b.max]

----------------------------------------------------------------------------
(* Specification SpecBuild: one call of calculate_h3_safety_scores on a    *)
(* new processor over a drawn incident table, with the database reachable  *)
(* (call.db = "ok") or not.  The hours are those next to the day's ends.   *)

BuildPoints == {NaN, 1, 3}
BuildHours == {NaN, 0, 5, 6, 21, 22, 23}
BuildRows == [point : BuildPoints, hour : BuildHours, severity : Severities]

InitBuild ==
    /\ incidents \in SeqUpTo(BuildRows, MaxIncidents)
    /\ ServingStart
    /\ h3_safety_scores = EmptyDict
    /\ h3_table = NoTable
    /\ h3_scores_cache = NoCache
    /\ call \in [op : {"calculate_h3_safety_scores"}, db : {"ok", "down"}]
    /\ ret = NoRet

\* H3SafetyProcessor.calculate_h3_safety_scores, with its result
CalculateCall ==
    /\ call.op = "calculate_h3_safety_scores"
    /\ ret = NoRet
    /\ IF call.db = "ok" /\ ~preprocess_raises(incidents)
       THEN /\ h3_safety_scores' = calculate_h3_safety_scores(incidents)
            /\ ret' = Returned(h3_safety_scores')
       ELSE /\ UNCHANGED h3_safety_scores
            /\ ret' = Raised
    /\ UNCHANGED <<incidents, serving_state, h3_table, h3_scores_cache, call>>

NextBuild == CalculateCall

SpecBuild == InitBuild /\ [][NextBuild]_vars

----------------------------------------------------------------------------
(* Claims on the build, checked under SpecBuild *)

BuildCalled == call.op = "calculate_h3_safety_scores" /\ ret # NoRet

\* the bucket of an incident by its clock hour
BucketOf(hour) ==
    IF hour \in 6 .. 21 THEN "day"
    ELSE IF hour \in (0 .. 5) \cup (22 .. 23) THEN "night"
    ELSE "unknown"

\* the cells the incidents of the table fall in
CellsOfTable ==
    {latlon_to_h3(incidents[i].point) : i \in 1 .. Len(incidents)}

\* the incidents of cell c and bucket b
IncidentsOf(c, b) ==
    {i \in 1 .. Len(incidents) :
        latlon_to_h3(incidents[i].point) = c /\ BucketOf(incidents[i].hour) = b}

\* C15: every incident is assigned exactly one time bucket (hour in 6..21
\* day, hour in 0..5 or 22..23 night, a missing or unparseable time
\* unknown); incidents in bucket unknown contribute to no per-cell day or
\* night aggregate and create no grid cell.
C15_TimeBuckets ==
    BuildCalled /\ ret.status = "ok" =>
        /\ \A b \in {"day", "night"} :
              /\ DOMAIN ret.value[b] =
                     {c \in CellsOfTable : IncidentsOf(c, b) # {}}
              /\ \A c \in DOMAIN ret.value[b] :
                     ret.value[b][c].incident_count = Cardinality(IncidentsOf(c, b))
        /\ DOMAIN ret.value["overall"] =
               DOMAIN ret.value["day"] \cup DOMAIN ret.value["night"]

\* C15 witness: the build has run over an incident at hour 5 and one of
\* unknown time in another cell; the first made a night cell, the second
\* no cell.
C15_Witness ==
    /\ BuildCalled
    /\ ret.status = "ok"
    /\ Len(incidents) = 2
    /\ incidents[1].hour = 5
    /\ incidents[2].hour = NaN
    /\ latlon_to_h3(incidents[1].point) # latlon_to_h3(incidents[2].point)
    /\ DOMAIN ret.value["overall"] = {latlon_to_h3(incidents[1].point)}
    /\ DOMAIN ret.value["day"] = {}

\* C22: after build, the cells of the overall table are exactly the cells
\* with at least one day incident together with the cells with at least one
\* night incident; a cell whose only incidents have bucket unknown is not in
\* the grid; every cell of the grid has an overall, a day_score and a
\* night_score value.
C22_OverallCells ==
    BuildCalled /\ ret.status = "ok" =>
        LET overall == h3_safety_scores["overall"]
        IN  /\ DOMAIN overall =
                   {c \in CellsOfTable : IncidentsOf(c, "day") # {}}
                   \cup {c \in CellsOfTable : IncidentsOf(c, "night") # {}}
            /\ \A c \in CellsOfTable :
                   IncidentsOf(c, "day") \cup IncidentsOf(c, "night") = {}
                       => c \notin DOMAIN overall
            /\ \A c \in DOMAIN overall :
                   /\ {"safety_score", "day_score", "night_score"}
                          \subseteq DOMAIN overall[c]
                   /\ InRange(overall[c].safety_score)
                   /\ InRange(overall[c].day_score)
                   /\ InRange(overall[c].night_score)

\* C22 witness: the build has run over a night incident in one cell and an
\* incident of unknown time in another; the grid holds the first cell only,
\* by its night incident.
C22_Witness ==
    /\ BuildCalled
    /\ ret.status = "ok"
    /\ Len(incidents) = 2
    /\ BucketOf(incidents[1].hour) = "night"
    /\ BucketOf(incidents[2].hour) = "unknown"
    /\ latlon_to_h3(incidents[1].point) = 1
    /\ latlon_to_h3(incidents[2].point) = 2
    /\ DOMAIN h3_safety_scores["overall"] = {1}
    /\ h3_safety_scores["overall"][1].day_score = DefaultDay

\* C23: the day, night and overall scores of every cell the build produces
\* do not depend on the order of the incident collection: every permutation
\* of the incidents gives the same scores, and so does merging the per-cell
\* partial aggregates (count, severity sum, max) of any partition of the
\* incidents; only the anchor coordinate may differ.
C23_OrderIndependent ==
    BuildCalled /\ ret.status = "ok" =>
        LET n == Len(incidents)
        IN  /\ \A f \in Orders(n) :
                   ScoresOf(calculate_h3_safety_scores(Permuted(incidents, f)))
                       = ScoresOf(h3_safety_scores)
            /\ \A S \in SUBSET (1 .. n) :
                   \A tp \in {"day", "night"} :
                       LET cells == {latlon_to_h3(p) : p \in BuildPoints \ {NaN}}
                           merged ==
                               [c \in cells |->
                                   MergeAggregates(
                                       PartialAggregate(
                                           Restrict(incidents, S, 1), tp, c),
                                       PartialAggregate(
                                           Restrict(incidents, (1 .. n) \ S, 1),
                                           tp, c))]
                       IN  /\ DOMAIN h3_safety_scores[tp] =
                                  {c \in cells : merged[c].count > 0}
                           /\ \A c \in DOMAIN h3_safety_scores[tp] :
                                  h3_safety_scores[tp][c].safety_score =
                                      calculate_safety_score(
                                          merged[c].count,
                                          Norm(merged[c].sum, merged[c].count),
                                          R(merged[c].max))

\* C23 witness: the grid is built from two incidents of one cell and one
\* period that differ in severity, so that the other order changes the first
\* row of the group.
C23_Witness ==
    /\ BuildCalled
    /\ ret.status = "ok"
    /\ Len(incidents) = 2
    /\ incidents[1].point = incidents[2].point
    /\ BucketOf(incidents[1].hour) = "night"
    /\ BucketOf(incidents[2].hour) = "night"
    /\ incidents[1].hour # incidents[2].hour
    /\ incidents[1].severity # incidents[2].severity
    /\ h3_safety_scores["night"][latlon_to_h3(incidents[1].point)].incident_count = 2

\* the incidents whose coordinates can be converted to a cell
ValidIncidents == SelectSeq(incidents, LAMBDA r : r.point # NaN)

\* C16: during aggregation an incident whose coordinates cannot be converted
\* to a cell is skipped and is not fatal: with the database reachable the
\* build completes and the resulting grid equals the grid built from the
\* remaining valid incidents.
C16_InvalidCoordinateSkipped ==
    BuildCalled /\ call.db = "ok" =>
        /\ ret.status = "ok"
        /\ h3_safety_scores = calculate_h3_safety_scores(ValidIncidents)

----------------------------------------------------------------------------
(* Specification SpecLookup: Spec with get_safety_score_for_location       *)
(* called on the processor's grid.                                         *)

LookupIncidentRows == [point : {1, 3}, hour : {3, 12}, severity : {2}]
LookupPoints == {NaN, 1, 2, 3, 5}
LookupPeriods == Periods \cup {"evening"}

LookupCalls ==
    [op : {"get_safety_score_for_location"},
     point : LookupPoints, time_period : LookupPeriods]

InitLookup ==
    /\ incidents \in SeqUpTo(LookupIncidentRows, MaxIncidents)
    /\ ServingStart
    /\ h3_safety_scores = EmptyDict
    /\ h3_table = NoTable
    /\ h3_scores_cache = NoCache
    /\ call \in LookupCalls
    /\ ret = NoRet

\* H3SafetyProcessor.get_safety_score_for_location(lat, lon, time_period)
Lookup ==
    /\ call.op = "get_safety_score_for_location"
    /\ ret = NoRet
    /\ ret' = IF ValidPoint(call.point)
              THEN Returned(get_safety_score_for_location(
                                h3_safety_scores, call.point, call.time_period))
              ELSE Raised
    /\ UNCHANGED <<incidents, serving_state, h3_safety_scores, h3_table, h3_scores_cache, call>>

NextLookup ==
    \/ Next
    \/ Lookup

SpecLookup == InitLookup /\ [][NextLookup]_vars

LookedUp == call.op = "get_safety_score_for_location" /\ ret # NoRet

\* the grid holds an entry for the called point's cell and period
HasEntry ==
    /\ call.time_period \in DOMAIN h3_safety_scores
    /\ latlon_to_h3(call.point) \in DOMAIN h3_safety_scores[call.time_period]

\* C4: for every valid point and every period of day, night and overall,
\* get_safety_score_for_location returns the score stored for the point's
\* cell and period when that entry exists, otherwise exactly the period's
\* default (day 75, night 60, overall 67.5); a missing cell or period entry
\* never makes it fail.
C4_LookupStoredOrDefault ==
    LookedUp /\ ValidPoint(call.point) /\ call.time_period \in Periods =>
        /\ ret.status = "ok"
        /\ HasEntry =>
               ret.value =
                   h3_safety_scores[call.time_period][latlon_to_h3(call.point)].safety_score
        /\ ~HasEntry /\ call.time_period = "day" => ret.value = R(75)
        /\ ~HasEntry /\ call.time_period = "night" => ret.value = R(60)
        /\ ~HasEntry /\ call.time_period = "overall" => ret.value = <<135, 2>>

\* C4 witness: on a grid with cells, a night lookup in a cell without an
\* entry has returned the night default.
C4_Witness ==
    /\ LookedUp
    /\ ValidPoint(call.point)
    /\ call.time_period = "night"
    /\ DOMAIN h3_safety_scores = Periods
    /\ DOMAIN h3_safety_scores["overall"] # {}
    /\ ~HasEntry
    /\ ret = Returned(R(60))

----------------------------------------------------------------------------
(* SafetyCalculator.calculate_route_safety *)

RECURSIVE NpSum(_)
NpSum(xs) == IF xs = <<>> THEN R(0) ELSE RAdd(xs[1], NpSum(Tail(xs)))

RECURSIVE NpMin(_)
NpMin(xs) ==
    IF Len(xs) = 1 THEN xs[1] ELSE PyMin(xs[1], NpMin(Tail(xs)))

RECURSIVE NpMax(_)
NpMax(xs) ==
    IF Len(xs) = 1 THEN xs[1] ELSE PyMax(xs[1], NpMax(Tail(xs)))

NpMean(xs) == RDivInt(NpSum(xs), Len(xs))

SquaredDeviations(xs) ==
    LET mean == NpMean(xs)
    IN  [i \in 1 .. Len(xs) |-> RMul(RSub(xs[i], mean), RSub(xs[i], mean))]

\* a slip: the sample variance (ddof = 1)
NpVarSample(xs) ==
    IF Len(xs) = 1 THEN R(0)
    ELSE RDivInt(NpSum(SquaredDeviations(xs)), Len(xs) - 1)

\* np.var(xs): the mean of the squared deviations from the mean (ddof = 0)
NpVar(xs) == NpMean(SquaredDeviations(xs))

InSeq(x, xs) == \E i \in 1 .. Len(xs) : xs[i] = x

\* a slip: every valid coordinate is scored, repeated cells included
RECURSIVE RouteLoopNoDedupe(_, _, _, _, _)
RouteLoopNoDedupe(scores, route_coords, time_period, h3_indices, safety_scores) ==
    IF route_coords = <<>> THEN <<h3_indices, safety_scores>>
    ELSE LET p == route_coords[1]
         IN  IF ~ValidPoint(p)
             THEN RouteLoopNoDedupe(scores, Tail(route_coords), time_period,
                                    h3_indices, safety_scores)
             ELSE RouteLoopNoDedupe(scores, Tail(route_coords), time_period,
                      Append(h3_indices, latlon_to_h3(p)),
                      Append(safety_scores,
                             get_safety_score_for_location(scores, p, time_period)))

\* the loop of lines 107-116: <<h3_indices, safety_scores>> after the
\* coordinates left in route_coords; a coordinate whose conversion raises is
\* skipped by the except clause
RECURSIVE RouteLoop(_, _, _, _, _)
RouteLoop(scores, route_coords, time_period, h3_indices, safety_scores) ==
    IF route_coords = <<>> THEN <<h3_indices, safety_scores>>
    ELSE LET p == route_coords[1]
         IN  IF ~ValidPoint(p) \/ InSeq(latlon_to_h3(p), h3_indices)
             THEN RouteLoop(scores, Tail(route_coords), time_period,
                            h3_indices, safety_scores)
             ELSE RouteLoop(scores, Tail(route_coords), time_period,
                      Append(h3_indices, latlon_to_h3(p)),
                      Append(safety_scores,
                             get_safety_score_for_location(scores, p, time_period)))

NeutralBreakdown ==
    [overall_safety |-> <<135, 2>>,
     min_safety |-> <<135, 2>>,
     max_safety |-> <<135, 2>>,
     safety_variance |-> R(0),
     h3_count |-> 0]

\* a slip: the minimum and the maximum exchanged
BreakdownMinMaxExchanged(h3_indices, safety_scores) ==
    IF safety_scores = <<>> THEN NeutralBreakdown
    ELSE [overall_safety |-> NpMean(safety_scores),
          min_safety |-> NpMax(safety_scores),
          max_safety |-> NpMin(safety_scores),
          safety_variance |-> NpVar(safety_scores),
          h3_count |-> Len(h3_indices)]

\* lines 118-140, from the lists the loop left
Breakdown(h3_indices, safety_scores) ==
    IF safety_scores = <<>> THEN NeutralBreakdown
    ELSE [overall_safety |-> NpMean(safety_scores),
          min_safety |-> NpMin(safety_scores),
          max_safety |-> NpMax(safety_scores),
          safety_variance |-> NpVar(safety_scores),
          h3_count |-> Len(h3_indices)]

\* SafetyCalculator.calculate_route_safety (Map_backend) on grid `scores`
calculate_route_safety(scores, route_coords, time_period) ==
    LET lists == RouteLoop(scores, route_coords, time_period, <<>>, <<>>)
    IN  Breakdown(lists[1], lists[2])

\* RouteProcessor.calculate_route_safety (map/route_processer.py): the same
\* loop without the try/except, so a rejected coordinate raises out of it
legacy_route_safety_raises(route_coords) ==
    \E i \in 1 .. Len(route_coords) : ~ValidPoint(route_coords[i])

legacy_calculate_route_safety(scores, route_coords, time_period) ==
    LET lists == RouteLoop(scores, route_coords, time_period, <<>>, <<>>)
    IN  Breakdown(lists[1], lists[2])

----------------------------------------------------------------------------
(* Specification SpecRoute: the grid is built from a drawn incident table  *)
(* (or replaced by the fallback) and a drawn route is scored against it.   *)

RouteIncidentRows ==
    {[point |-> 1, hour |-> 12, severity |-> 2],
     [point |-> 3, hour |-> 3, severity |-> 40]}
RoutePoints == {NaN, 1, 2, 3}

RouteCalls ==
    [op : {"calculate_route_safety", "legacy_calculate_route_safety"},
     route_coords : SeqUpTo(RoutePoints, MaxRouteLen),
     time_period : Periods]

InitRoute ==
    /\ incidents \in SeqUpTo(RouteIncidentRows, MaxIncidents)
    /\ ServingStart
    /\ h3_safety_scores = EmptyDict
    /\ h3_table = NoTable
    /\ h3_scores_cache = NoCache
    /\ call \in RouteCalls
    /\ ret = NoRet

\* SafetyCalculator.calculate_route_safety(route_coords, time_period)
ScoreRoute ==
    /\ call.op = "calculate_route_safety"
    /\ ret = NoRet
    /\ ret' = Returned(calculate_route_safety(h3_safety_scores,
                           call.route_coords, call.time_period))
    /\ UNCHANGED <<incidents, serving_state, h3_safety_scores, h3_table, h3_scores_cache, call>>

\* RouteProcessor.calculate_route_safety(route_coords, time_period) of
\* map/route_processer.py
LegacyScoreRoute ==
    /\ call.op = "legacy_calculate_route_safety"
    /\ h3_safety_scores # EmptyDict        \* RouteProcessor.__init__ has run
    /\ ret = NoRet
    /\ ret' = IF legacy_route_safety_raises(call.route_coords) THEN Raised
              ELSE Returned(legacy_calculate_route_safety(h3_safety_scores,
                                call.route_coords, call.time_period))
    /\ UNCHANGED <<incidents, serving_state, h3_safety_scores, h3_table, h3_scores_cache, call>>

NextRoute ==
    \/ Calculate
    \/ LegacyRouteProcessorInit
    \/ ScoreRoute
    \/ LegacyScoreRoute

SpecRoute == InitRoute /\ [][NextRoute]_vars

----------------------------------------------------------------------------
(* Claims on calculate_route_safety, checked under SpecRoute *)

RouteScored ==
    /\ call.op \in {"calculate_route_safety", "legacy_calculate_route_safety"}
    /\ ret # NoRet

ValidCoords(route_coords) == SelectSeq(route_coords, ValidPoint)

\* C6: calculate_route_safety never fails; for an empty coordinate sequence,
\* or one whose every point fails cell conversion, it returns exactly
\* {overall_safety 67.5, min_safety 67.5, max_safety 67.5, safety_variance 0,
\* h3_count 0} for every period; a point that fails conversion is skipped and
\* the remaining points are still scored.
C6_RouteSafetyNeverFails ==
    RouteScored =>
        /\ ret.status = "ok"
        /\ ValidCoords(call.route_coords) = <<>> =>
               ret.value = [overall_safety |-> <<135, 2>>,
                            min_safety |-> <<135, 2>>,
                            max_safety |-> <<135, 2>>,
                            safety_variance |-> R(0),
                            h3_count |-> 0]
        /\ ret.value = calculate_route_safety(h3_safety_scores,
                           ValidCoords(call.route_coords), call.time_period)

\* C6, for SafetyCalculator.calculate_route_safety of Map_backend alone: the
\* statement holds of the copy that wraps the conversion in try/except.
C6_MapBackendNeverFails ==
    call.op = "calculate_route_safety" => C6_RouteSafetyNeverFails

\* the cells of the valid points among the first n coordinates
CellsBefore(route_coords, n) ==
    {latlon_to_h3(route_coords[j]) :
        j \in {k \in 1 .. n : ValidPoint(route_coords[k])}}

\* route_coords with p inserted after position n
InsertAfter(route_coords, n, p) ==
    SubSeq(route_coords, 1, n) \o <<p>>
        \o SubSeq(route_coords, n + 1, Len(route_coords))

NoDuplicates(xs) == \A i, j \in 1 .. Len(xs) : xs[i] = xs[j] => i = j

\* the position in route_coords of the first valid point of cell c
FirstPos(route_coords, c) ==
    CHOOSE k \in 1 .. Len(route_coords) :
        /\ c \in CellsBefore(route_coords, k)
        /\ c \notin CellsBefore(route_coords, k - 1)

\* cells lists the cells of route_coords once each, by first occurrence
FirstOccurrenceOrder(route_coords, cells) ==
    /\ NoDuplicates(cells)
    /\ {cells[i] : i \in 1 .. Len(cells)}
           = CellsBefore(route_coords, Len(route_coords))
    /\ \A i, j \in 1 .. Len(cells) :
           i < j => FirstPos(route_coords, cells[i]) < FirstPos(route_coords, cells[j])

\* C7: each distinct cell is scored once, in first-occurrence order:
\* inserting a point whose cell already occurred earlier in the route,
\* right after it or after other cells were visited, leaves the whole
\* breakdown unchanged; in particular [p, p, q] scores as [p, q].
C7_RepeatedCellScoredOnce ==
    call.op = "calculate_route_safety" /\ ret # NoRet =>
        /\ FirstOccurrenceOrder(call.route_coords,
               RouteLoop(h3_safety_scores, call.route_coords,
                         call.time_period, <<>>, <<>>)[1])
        /\ \A n \in 1 .. Len(call.route_coords), p \in RoutePoints :
               ValidPoint(p)
               /\ latlon_to_h3(p) \in CellsBefore(call.route_coords, n) =>
                   calculate_route_safety(h3_safety_scores,
                       InsertAfter(call.route_coords, n, p),
                       call.time_period) = ret.value

\* C7 witness: a route [p, p', q] with p and p' in one cell and q in another,
\* the two cells scoring differently, has been scored with h3_count 2.
C7_Witness ==
    /\ call.op = "calculate_route_safety"
    /\ ret # NoRet
    /\ Len(call.route_coords) = 3
    /\ \A i \in 1 .. 3 : ValidPoint(call.route_coords[i])
    /\ latlon_to_h3(call.route_coords[1]) = latlon_to_h3(call.route_coords[2])
    /\ latlon_to_h3(call.route_coords[3]) # latlon_to_h3(call.route_coords[1])
    /\ ret.value.h3_count = 2
    /\ ret.value.min_safety # ret.value.max_safety

\* the score of a cell of the route: that of any of the route's points in it
CellScore(c) ==
    LET p == CHOOSE q \in {call.route_coords[i] : i \in 1 .. Len(call.route_coords)} :
                 ValidPoint(q) /\ latlon_to_h3(q) = c
    IN  get_safety_score_for_location(h3_safety_scores, p, call.time_period)

\* the sum of the values of a function with a finite domain
RECURSIVE SumOver(_)
SumOver(f) ==
    IF DOMAIN f = {} THEN R(0)
    ELSE LET x == CHOOSE y \in DOMAIN f : TRUE
         IN  RAdd(f[x], SumOver([y \in DOMAIN f \ {x} |-> f[y]]))

\* C8: for a route with at least one valid point, overall_safety is the
\* arithmetic mean, min_safety the minimum, max_safety the maximum and
\* safety_variance the population variance (squared deviations summed and
\* divided by n, not n - 1) of the scores of the distinct visited cells, and
\* h3_count is the number of distinct visited cells.
C8_BreakdownStatistics ==
    call.op = "calculate_route_safety" /\ ret # NoRet
    /\ ValidCoords(call.route_coords) # <<>> =>
        LET cells == CellsBefore(call.route_coords, Len(call.route_coords))
            n == Cardinality(cells)
            b == ret.value
            SqDev(c) == RMul(RSub(CellScore(c), b.overall_safety),
                             RSub(CellScore(c), b.overall_safety))
        IN  /\ b.h3_count = n
            /\ RMul(R(n), b.overall_safety) = SumOver([c \in cells |-> CellScore(c)])
            /\ \E c \in cells : b.min_safety = CellScore(c)
            /\ \A c \in cells : RLe(b.min_safety, CellScore(c))
            /\ \E c \in cells : b.max_safety = CellScore(c)
            /\ \A c \in cells : RLe(CellScore(c), b.max_safety)
            /\ RMul(R(n), b.safety_variance) = SumOver([c \in cells |-> SqDev(c)])

\* C8 witness: a route over two cells with different scores has been scored,
\* with a variance above 0.
C8_Witness ==
    /\ call.op = "calculate_route_safety"
    /\ ret # NoRet
    /\ ret.value.h3_count = 2
    /\ RLt(R(0), ret.value.safety_variance)
    /\ RLt(ret.value.min_safety, ret.value.overall_safety)

----------------------------------------------------------------------------
(* RouteFormatter.get_route_recommendation *)

\* max(routes, key=lambda x: x.safety_score): the position (from 1) of the
\* first route no later route beats, found as max() scans the list
RECURSIVE MaxScan(_, _, _)
MaxScan(routes, best, i) ==
    IF i > Len(routes) THEN best
    ELSE IF RLt(routes[best].safety_score, routes[i].safety_score)
         THEN MaxScan(routes, i, i + 1)
         ELSE MaxScan(routes, best, i + 1)

\* min(routes, key=lambda x: x.distance_km), likewise
RECURSIVE MinScan(_, _, _)
MinScan(routes, best, i) ==
    IF i > Len(routes) THEN best
    ELSE IF RLt(routes[i].distance_km, routes[best].distance_km)
         THEN MinScan(routes, i, i + 1)
         ELSE MinScan(routes, best, i + 1)

\* routes.index(x): the index (from 0) of the first route equal to x
ListIndex(routes, x) ==
    (CHOOSE i \in 1 .. Len(routes) :
        routes[i] = x /\ \A j \in 1 .. i - 1 : routes[j] # x) - 1

BestCombination == "Best combination of safety and efficiency"
PrioritizingSafety == "Prioritizing safety over shorter distance"
GoodBalance == "Good balance of safety and efficiency"

\* a slip: no guard for the empty list
get_route_recommendation_unguarded(routes) ==
    IF routes = <<>> THEN [recommended_route |-> 0, reason |-> BestCombination]
    ELSE LET best_safety == routes[MaxScan(routes, 1, 2)]
             shortest == routes[MinScan(routes, 1, 2)]
         IN  IF best_safety = shortest
             THEN [recommended_route |-> 0, reason |-> BestCombination]
             ELSE IF RLt(R(15), RSub(best_safety.safety_score,
                                     shortest.safety_score))
             THEN [recommended_route |-> ListIndex(routes, best_safety),
                   reason |-> PrioritizingSafety]
             ELSE [recommended_route |-> ListIndex(routes, shortest),
                   reason |-> GoodBalance]

\* a slip: the safer route already at a gap of exactly 15
get_route_recommendation_at_least_15(routes) ==
    IF routes = <<>> THEN [message |-> "No routes available"]
    ELSE LET best_safety == routes[MaxScan(routes, 1, 2)]
             shortest == routes[MinScan(routes, 1, 2)]
         IN  IF best_safety = shortest
             THEN [recommended_route |-> 0, reason |-> BestCombination]
             ELSE IF RLe(R(15), RSub(best_safety.safety_score,
                                     shortest.safety_score))
             THEN [recommended_route |-> ListIndex(routes, best_safety),
                   reason |-> PrioritizingSafety]
             ELSE [recommended_route |-> ListIndex(routes, shortest),
                   reason |-> GoodBalance]

get_route_recommendation(routes) ==
    IF routes = <<>> THEN [message |-> "No routes available"]
    ELSE LET best_safety == routes[MaxScan(routes, 1, 2)]
             shortest == routes[MinScan(routes, 1, 2)]
         IN  IF best_safety = shortest
             THEN [recommended_route |-> 0, reason |-> BestCombination]
             ELSE IF RLt(R(15), RSub(best_safety.safety_score,
                                     shortest.safety_score))
             THEN [recommended_route |-> ListIndex(routes, best_safety),
                   reason |-> PrioritizingSafety]
             ELSE [recommended_route |-> ListIndex(routes, shortest),
                   reason |-> GoodBalance]

----------------------------------------------------------------------------
(* Specification SpecRank: get_route_recommendation on a drawn route list, *)
(* in any order.  A route is its safety_score and distance_km, the fields  *)
(* the recommendation reads.                                               *)

RankSafeties == {R(50), R(75), R(90), R(91)}
RankDistances == {R(5), R(10), R(12)}
RankRoutes == [safety_score : RankSafeties, distance_km : RankDistances]

InitRank ==
    /\ incidents = <<>>
    /\ ServingStart
    /\ h3_safety_scores = EmptyDict
    /\ h3_table = NoTable
    /\ h3_scores_cache = NoCache
    /\ call \in [op : {"get_route_recommendation"},
                 routes : SeqUpTo(RankRoutes, MaxRoutes)]
    /\ ret = NoRet

\* RouteFormatter.get_route_recommendation(routes)
Recommend ==
    /\ call.op = "get_route_recommendation"
    /\ ret = NoRet
    /\ ret' = Returned(get_route_recommendation(call.routes))
    /\ UNCHANGED <<incidents, serving_state, h3_safety_scores, h3_table, h3_scores_cache, call>>

NextRank == Recommend

SpecRank == InitRank /\ [][NextRank]_vars

----------------------------------------------------------------------------
(* Claims on get_route_recommendation, checked under SpecRank *)

Recommended ==
    /\ call.op = "get_route_recommendation"
    /\ ret # NoRet
    /\ call.routes # <<>>

\* S: the position (from 1) of the first route of maximum safety_score
SafestPos ==
    CHOOSE i \in 1 .. Len(call.routes) :
        /\ \A j \in 1 .. Len(call.routes) :
               RLe(call.routes[j].safety_score, call.routes[i].safety_score)
        /\ \A j \in 1 .. i - 1 :
               RLt(call.routes[j].safety_score, call.routes[i].safety_score)

\* D: the position (from 1) of the first route of minimum distance_km
ShortestPos ==
    CHOOSE i \in 1 .. Len(call.routes) :
        /\ \A j \in 1 .. Len(call.routes) :
               RLe(call.routes[i].distance_km, call.routes[j].distance_km)
        /\ \A j \in 1 .. i - 1 :
               RLt(call.routes[i].distance_km, call.routes[j].distance_km)

SafetyGap ==
    RSub(call.routes[SafestPos].safety_score,
         call.routes[ShortestPos].safety_score)

\* C9: for every non-empty route list in any order, if the maximum-safety
\* route S and the minimum-distance route D (first occurrence on ties) are
\* the same route, get_route_recommendation returns the index of that route
\* in the list with reason 'Best combination of safety and efficiency'.
C9_SameRouteRecommended ==
    Recommended /\ SafestPos = ShortestPos =>
        /\ ret.value.reason = BestCombination
        /\ ret.value.recommended_route = SafestPos - 1

\* C10: when S and D are different routes, get_route_recommendation returns
\* the index of S with reason 'Prioritizing safety over shorter distance' if
\* and only if S.safety_score - D.safety_score > 15; otherwise (a gap of 15
\* or less, a safety tie included) it returns the index of D with reason
\* 'Good balance of safety and efficiency'.
C10_SafetyGapDecides ==
    Recommended /\ SafestPos # ShortestPos =>
        IF RLt(R(15), SafetyGap)
        THEN ret.value = [recommended_route |-> SafestPos - 1,
                          reason |-> PrioritizingSafety]
        ELSE ret.value = [recommended_route |-> ShortestPos - 1,
                          reason |-> GoodBalance]

\* C10 witness: S and D differ with a gap of exactly 15, and D, not first in
\* the list, has been recommended.
C10_Witness ==
    /\ Recommended
    /\ SafestPos # ShortestPos
    /\ SafetyGap = R(15)
    /\ ret.value.reason = GoodBalance
    /\ ret.value.recommended_route > 0

----------------------------------------------------------------------------
(* Specification SpecScore: calculate_safety_score on drawn arguments *)

ScoreCounts == 0 .. MaxCount
ScoreAverages == {Norm(k, 2) : k \in 0 .. 2 * MaxSeverity}
ScoreMaxima == {R(m) : m \in 0 .. MaxSeverity}

InitScore ==
    /\ incidents = <<>>
    /\ ServingStart
    /\ h3_safety_scores = EmptyDict
    /\ h3_table = NoTable
    /\ h3_scores_cache = NoCache
    /\ call \in [op : {"calculate_safety_score"},
                 incident_count : ScoreCounts,
                 avg_severity : ScoreAverages,
                 max_severity : ScoreMaxima]
    /\ ret = NoRet

CallScore ==
    /\ call.op = "calculate_safety_score"
    /\ ret = NoRet
    /\ ret' = Returned(calculate_safety_score(call.incident_count,
                                              call.avg_severity,
                                              call.max_severity))
    /\ UNCHANGED <<incidents, serving_state, h3_safety_scores, h3_table, h3_scores_cache, call>>

NextScore == CallScore

SpecScore == InitScore /\ [][NextScore]_vars

ScoreReturned == call.op = "calculate_safety_score" /\ ret.status = "ok"

\* C1: for every non-negative incident_count, avg_severity and max_severity,
\* severities far above 10 included, calculate_safety_score returns a value
\* in the closed interval [0, 100].
C1_ScoreInRange ==
    ScoreReturned => RLe(R(0), ret.value) /\ RLe(ret.value, R(100))

\* C1 witness: a call with both severities above 10 whose raw score is
\* negative has returned.
C1_Witness ==
    /\ ScoreReturned
    /\ RLt(R(10), call.avg_severity)
    /\ RLt(R(10), call.max_severity)
    /\ ret.value = R(0)

\* The closed form of the score, times 2: 200 - (8*min(count,10) + 7*avg + 5*max)
TwiceRaw(c, a, m) ==
    RSub(R(200), RAdd(R(8 * (IF c < 10 THEN c ELSE 10)),
                      RAdd(RMul(R(7), a), RMul(R(5), m))))

\* C2: calculate_safety_score equals
\* clamp(100 - (min(count/10, 1)*40 + (avg/10)*35 + (max/10)*25), 0, 100):
\* the count term saturates at 10 incidents, the severity terms do not
\* saturate before the final clamp.
C2_ScoreFormula ==
    ScoreReturned =>
        LET t == TwiceRaw(call.incident_count, call.avg_severity, call.max_severity)
        IN  RMul(R(2), ret.value) =
                (IF RLt(t, R(0)) THEN R(0)
                 ELSE IF RLt(R(200), t) THEN R(200) ELSE t)

\* C2 witness: more than 10 incidents and an average severity above 10 with
\* a score strictly between 0 and 100, where saturation would show.
C2_Witness ==
    /\ ScoreReturned
    /\ call.incident_count > 10
    /\ RLt(R(10), call.avg_severity)
    /\ RLt(R(0), ret.value)
    /\ RLt(ret.value, R(100))

----------------------------------------------------------------------------
(* RouteFormatter: labels, colours and the formatted response *)

\* round(x, ndigits) of an exactly representable x: to the nearest multiple
\* of 10^-ndigits, a half to the even neighbour
PyRound(x, ndigits) ==
    LET scale == 10 ^ ndigits
        num == x[1] * scale
        q == num \div x[2]
        r == num % x[2]
        up == \/ 2 * r > x[2]
              \/ 2 * r = x[2] /\ q % 2 = 1
    IN  Norm(IF up THEN q + 1 ELSE q, scale)

\* a slip: the thresholds exclusive (score > 80, > 65, ...)
get_safety_level_exclusive(score) ==
    IF RLt(R(80), score) THEN "Very Safe"
    ELSE IF RLt(R(65), score) THEN "Safe"
    ELSE IF RLt(R(50), score) THEN "Moderate"
    ELSE IF RLt(R(35), score) THEN "Caution Advised"
    ELSE "High Risk"

get_safety_level(score) ==
    IF RLe(R(80), score) THEN "Very Safe"
    ELSE IF RLe(R(65), score) THEN "Safe"
    ELSE IF RLe(R(50), score) THEN "Moderate"
    ELSE IF RLe(R(35), score) THEN "Caution Advised"
    ELSE "High Risk"

\* _get_safety_color
get_safety_color(score) ==
    IF RLe(R(80), score) THEN "#28a745"
    ELSE IF RLe(R(65), score) THEN "#17a2b8"
    ELSE IF RLe(R(50), score) THEN "#ffc107"
    ELSE IF RLe(R(35), score) THEN "#fd7e14"
    ELSE "#dc3545"

\* the rounded safety_breakdown every format carries
FormattedBreakdown(route) ==
    [overall |-> PyRound(route.safety_breakdown.overall_safety, 2),
     minimum |-> PyRound(route.safety_breakdown.min_safety, 2),
     maximum |-> PyRound(route.safety_breakdown.max_safety, 2),
     variance |-> PyRound(route.safety_breakdown.safety_variance, 2)]

\* the standard formatted_route of the route at index i (from 0); the name
\* f"Route {i + 1}" is kept as its number
StandardRoute(route, i) ==
    [id |-> i,
     name |-> i + 1,
     type |-> route.route_type,
     coordinates |-> route.coordinates,
     safety_score |-> PyRound(route.safety_score, 2),
     safety_level |-> get_safety_level(route.safety_score),
     distance_km |-> PyRound(route.distance_km, 2),
     duration_minutes |-> PyRound(route.duration_minutes, 1),
     h3_indices_count |-> Cardinality(route.h3_indices),
     safety_breakdown |-> FormattedBreakdown(route)]

\* format_for_google_maps' formatted_route
GoogleMapsRoute(route, i) ==
    [id |-> i,
     name |-> i + 1,
     type |-> route.route_type,
     path |-> route.coordinates,
     safety_score |-> PyRound(route.safety_score, 2),
     safety_level |-> get_safety_level(route.safety_score),
     safety_color |-> get_safety_color(route.safety_score),
     distance_km |-> PyRound(route.distance_km, 2),
     duration_minutes |-> PyRound(route.duration_minutes, 1),
     stroke_weight |-> IF i = 0 THEN 6 ELSE 4,
     z_index |-> 100 - i,
     safety_breakdown |-> FormattedBreakdown(route)]

\* _format_as_geojson's feature
GeoJsonFeature(route, i) ==
    [geometry |-> route.coordinates,
     properties |->
        [id |-> i,
         name |-> i + 1,
         type |-> route.route_type,
         safety_score |-> PyRound(route.safety_score, 2),
         safety_level |-> get_safety_level(route.safety_score),
         distance_km |-> PyRound(route.distance_km, 2),
         duration_minutes |-> PyRound(route.duration_minutes, 1),
         h3_indices_count |-> Cardinality(route.h3_indices),
         safety_breakdown |-> FormattedBreakdown(route),
         color |-> get_safety_color(route.safety_score),
         weight |-> IF i = 0 THEN 5 ELSE 3]]

\* all_coords of _calculate_bounds
AllCoords(routes) ==
    UNION {{routes[i].coordinates[k] : k \in 1 .. Len(routes[i].coordinates)}
              : i \in 1 .. Len(routes)}

\* max(lats) of an empty all_coords raises ValueError
calculate_bounds_raises(routes) == routes # <<>> /\ AllCoords(routes) = {}

\* _calculate_bounds; a point stands for its latitude and its longitude
calculate_bounds(routes) ==
    IF routes = <<>> THEN EmptyDict
    ELSE LET hi == CHOOSE p \in AllCoords(routes) : \A q \in AllCoords(routes) : q <= p
             lo == CHOOSE p \in AllCoords(routes) : \A q \in AllCoords(routes) : p <= q
         IN  [north |-> hi, south |-> lo, east |-> hi, west |-> lo]

OutputFormats == {"standard", "google_maps", "geojson"}

format_routes_raises(routes, output_format) ==
    output_format = "google_maps" /\ calculate_bounds_raises(routes)

\* RouteFormatter.format_routes_for_frontend; generated_at, the wall clock,
\* is left out
format_routes_for_frontend(routes, output_format) ==
    IF output_format = "google_maps"
    THEN [success |-> TRUE,
          routes |-> [i \in 1 .. Len(routes) |-> GoogleMapsRoute(routes[i], i - 1)],
          recommendation |-> get_route_recommendation(routes),
          bounds |-> calculate_bounds(routes)]
    ELSE IF output_format = "geojson"
    THEN [type |-> "FeatureCollection",
          features |-> [i \in 1 .. Len(routes) |-> GeoJsonFeature(routes[i], i - 1)],
          properties |-> [recommendation |-> get_route_recommendation(routes)]]
    ELSE [success |-> TRUE,
          routes |-> [i \in 1 .. Len(routes) |-> StandardRoute(routes[i], i - 1)],
          recommendation |-> get_route_recommendation(routes)]

----------------------------------------------------------------------------
(* RouteProcessor.get_safe_routes *)

\* A raw route as _get_routes hands it over: whether it carries
\* geometry.coordinates, the coordinates, and the distance (metres) and
\* duration (seconds) of its summary (of its first segment in
\* src/map/route_processer.py).

\* _extract_route_data raises ValueError on a route without geometry
extract_raises(route) == ~route.has_geometry

\* [latlon_to_h3(lat, lon) for lat, lon in route_coords] raises on a
\* coordinate h3 rejects
h3_indices_raises(route_coords) ==
    \E k \in 1 .. Len(route_coords) : ~ValidPoint(route_coords[k])

\* the body of the loop raises for this candidate, which is then skipped
process_route_raises(route) ==
    extract_raises(route) \/ h3_indices_raises(route.coordinates)

\* the SafetyRoute built for the candidate at index i (from 0)
MakeSafetyRoute(scores, route, i, time_period) ==
    LET safety_breakdown == calculate_route_safety(scores, route.coordinates, time_period)
    IN  [coordinates |-> route.coordinates,
         safety_score |-> safety_breakdown.overall_safety,
         distance_km |-> RDivInt(R(route.distance), 1000),
         duration_minutes |-> RDivInt(R(route.duration), 60),
         h3_indices |-> {latlon_to_h3(route.coordinates[k])
                            : k \in 1 .. Len(route.coordinates)},
         safety_breakdown |-> safety_breakdown,
         route_type |-> IF i = 0 THEN "primary" ELSE "alternative"]

\* safety_routes after the loop over enumerate(raw_routes), from index i on
RECURSIVE SafetyRoutesFrom(_, _, _, _)
SafetyRoutesFrom(scores, raw_routes, time_period, i) ==
    IF i > Len(raw_routes) THEN <<>>
    ELSE IF process_route_raises(raw_routes[i])
         THEN SafetyRoutesFrom(scores, raw_routes, time_period, i + 1)
         ELSE <<MakeSafetyRoute(scores, raw_routes[i], i - 1, time_period)>>
              \o SafetyRoutesFrom(scores, raw_routes, time_period, i + 1)

\* a slip: x goes before the routes it ties with
RECURSIVE KeepBeforeTiesLast(_, _)
KeepBeforeTiesLast(sorted, x) ==
    IF sorted = <<>> \/ RLe(Head(sorted).safety_score, x.safety_score) THEN 0
    ELSE 1 + KeepBeforeTiesLast(Tail(sorted), x)

\* the number of leading routes of a descending list that x does not beat
RECURSIVE KeepBefore(_, _)
KeepBefore(sorted, x) ==
    IF sorted = <<>> \/ RLt(Head(sorted).safety_score, x.safety_score) THEN 0
    ELSE 1 + KeepBefore(Tail(sorted), x)

\* safety_routes.sort(key=lambda x: x.safety_score, reverse=True): the sort
\* is stable, so each route goes after the routes it does not beat
RECURSIVE SortBySafety(_, _)
SortBySafety(sorted, rest) ==
    IF rest = <<>> THEN sorted
    ELSE LET k == KeepBefore(sorted, Head(rest))
         IN  SortBySafety(SubSeq(sorted, 1, k) \o <<Head(rest)>>
                              \o SubSeq(sorted, k + 1, Len(sorted)),
                          Tail(rest))

\* a slip: the routes are returned in the order they were processed
get_safe_routes_unsorted(scores, raw_routes, time_period) ==
    SafetyRoutesFrom(scores, raw_routes, time_period, 1)

get_safe_routes(scores, raw_routes, time_period) ==
    SortBySafety(<<>>, SafetyRoutesFrom(scores, raw_routes, time_period, 1))

\* src/map/route_processer.py: a candidate without geometry is skipped, a
\* rejected coordinate raises out of get_safe_routes
legacy_get_safe_routes_raises(raw_routes) ==
    \E i \in 1 .. Len(raw_routes) :
        raw_routes[i].has_geometry /\ h3_indices_raises(raw_routes[i].coordinates)

\* src/map/route_processer.py: SafetyRoute has no route_type
LegacyMakeSafetyRoute(scores, route, time_period) ==
    LET safety_breakdown ==
            legacy_calculate_route_safety(scores, route.coordinates, time_period)
    IN  [coordinates |-> route.coordinates,
         safety_score |-> safety_breakdown.overall_safety,
         distance_km |-> RDivInt(R(route.distance), 1000),
         duration_minutes |-> RDivInt(R(route.duration), 60),
         h3_indices |-> {latlon_to_h3(route.coordinates[k])
                            : k \in 1 .. Len(route.coordinates)},
         safety_breakdown |-> safety_breakdown]

RECURSIVE LegacySafetyRoutesFrom(_, _, _, _)
LegacySafetyRoutesFrom(scores, raw_routes, time_period, i) ==
    IF i > Len(raw_routes) THEN <<>>
    ELSE IF ~raw_routes[i].has_geometry
         THEN LegacySafetyRoutesFrom(scores, raw_routes, time_period, i + 1)
         ELSE <<LegacyMakeSafetyRoute(scores, raw_routes[i], time_period)>>
              \o LegacySafetyRoutesFrom(scores, raw_routes, time_period, i + 1)

legacy_get_safe_routes(scores, raw_routes, time_period) ==
    SortBySafety(<<>>, LegacySafetyRoutesFrom(scores, raw_routes, time_period, 1))

----------------------------------------------------------------------------
(* Specification SpecServe: the serving process.  The score table is either *)
(* missing or was saved by an earlier run of main() over the incident      *)
(* table; route processors are constructed and a drawn request is served.  *)
(* call.raw_routes is what _get_routes hands over for the request.         *)

ServeIncidents ==
    <<[point |-> 1, hour |-> 3, severity |-> 2],
      [point |-> 3, hour |-> 12, severity |-> 40]>>

\* the table main() leaves: calculate_h3_safety_scores, then save
SavedTable == Table(InsertData(calculate_h3_safety_scores(ServeIncidents)))

RawRoute(has_geometry, coordinates, distance) ==
    [has_geometry |-> has_geometry, coordinates |-> coordinates,
     distance |-> distance, duration |-> distance \div 10]

RawRoutes ==
    {RawRoute(FALSE, <<>>, 5000),
     RawRoute(TRUE, <<>>, 10000),
     RawRoute(TRUE, <<1>>, 10000),
     RawRoute(TRUE, <<2>>, 5000),
     RawRoute(TRUE, <<3, 1>>, 5000),
     RawRoute(TRUE, <<1, NaN>>, 5000)}

ServePeriods == {"overall", "night"}

ServeCalls ==
    [op : {"get_route_with_safety"},
     raw_routes : SeqUpTo(RawRoutes, MaxCandidates),
     time_period : ServePeriods,
     output_format : OutputFormats,
     load : {"none"}]
    \cup
    [op : {"get_safe_routes", "legacy_get_safe_routes"},
     raw_routes : SeqUpTo(RawRoutes, MaxCandidates),
     time_period : ServePeriods,
     output_format : {"standard"},
     load : {"none"}]

InitServe ==
    /\ incidents = ServeIncidents
    /\ ServingStart
    /\ h3_safety_scores = EmptyDict
    /\ h3_table \in {NoTable, SavedTable}
    /\ h3_scores_cache = NoCache
    /\ call \in ServeCalls
    /\ ret = NoRet

\* RouteProcessor.get_safe_routes (Map_backend) on a constructed processor
GetSafeRoutes ==
    /\ call.op = "get_safe_routes"
    /\ ret = NoRet
    /\ h3_safety_scores # EmptyDict
    /\ ret' = Returned(get_safe_routes(h3_safety_scores, call.raw_routes,
                                       call.time_period))
    /\ UNCHANGED <<incidents, serving_state, h3_safety_scores, h3_table, h3_scores_cache, call>>

\* RouteProcessor.get_safe_routes (map/route_processer.py)
LegacyGetSafeRoutes ==
    /\ call.op = "legacy_get_safe_routes"
    /\ ret = NoRet
    /\ h3_safety_scores # EmptyDict
    /\ ret' = IF legacy_get_safe_routes_raises(call.raw_routes) THEN Raised
              ELSE Returned(legacy_get_safe_routes(h3_safety_scores,
                                call.raw_routes, call.time_period))
    /\ UNCHANGED <<incidents, serving_state, h3_safety_scores, h3_table, h3_scores_cache, call>>

\* what RouteProcessor.__init__ did about the load: found the class-level
\* cache filled, loaded the table, or replaced a failed load by the fallback
LoadOutcome(db_ok) ==
    IF h3_scores_cache # NoCache THEN "cached"
    ELSE IF load_raises(db_ok) THEN "failed" ELSE "loaded"

\* the grid RouteProcessor.__init__ leaves in the processor and the cache
RouteProcessorScores(db_ok) ==
    IF h3_scores_cache # NoCache THEN h3_scores_cache.scores
    ELSE IF load_raises(db_ok) THEN FallbackScores
    ELSE load_h3_scores_from_database(h3_table.rows)

\* the dict get_route_with_safety returns from its except clause
ErrorResponse == [error |-> "error", routes |-> <<>>]

\* get_route_with_safety (Map_backend): constructs a RouteProcessor, ranks
\* the candidates and formats them; call.load records what the constructor
\* did about the load
GetRouteWithSafety ==
    \E db_ok \in BOOLEAN :
        LET scores == RouteProcessorScores(db_ok)
            routes == get_safe_routes(scores, call.raw_routes, call.time_period)
        IN  /\ call.op = "get_route_with_safety"
            /\ ret = NoRet
            /\ h3_safety_scores' = scores
            /\ h3_scores_cache' = Cached(scores)
            /\ call' = [call EXCEPT !.load = LoadOutcome(db_ok)]
            /\ ret' = IF format_routes_raises(routes, call.output_format)
                      THEN Returned(ErrorResponse)
                      ELSE Returned(format_routes_for_frontend(routes,
                                        call.output_format))
            /\ UNCHANGED <<incidents, serving_state, h3_table>>

NextServe ==
    \/ RouteProcessorInit
    \/ LegacyRouteProcessorInit
    \/ GetSafeRoutes
    \/ LegacyGetSafeRoutes
    \/ GetRouteWithSafety

SpecServe == InitServe /\ [][NextServe]_vars

----------------------------------------------------------------------------
(* Claims on the served request, checked under SpecServe *)

Served == call.op = "get_route_with_safety" /\ ret # NoRet

\* every candidate of the request lacks geometry or holds a coordinate that
\* cannot be converted to a cell
NoCandidateSurvives ==
    \A i \in 1 .. Len(call.raw_routes) :
        \/ ~call.raw_routes[i].has_geometry
        \/ \E k \in 1 .. Len(call.raw_routes[i].coordinates) :
               call.raw_routes[i].coordinates[k] = NaN

NoRoutesSignal == [message |-> "No routes available"]

\* C11: get_route_recommendation on an empty route list returns the
\* 'No routes available' signal with no recommended index, and formatting an
\* empty ranked list succeeds, in every output format, with an empty routes
\* array (features, for geojson) carrying that signal.
C11_EmptyListSignal ==
    Served /\ NoCandidateSurvives =>
        /\ "error" \notin DOMAIN ret.value
        /\ IF call.output_format = "geojson"
           THEN /\ ret.value.features = <<>>
                /\ ret.value.properties.recommendation = NoRoutesSignal
           ELSE /\ ret.value.success
                /\ ret.value.routes = <<>>
                /\ ret.value.recommendation = NoRoutesSignal

\* C11 witness: a request whose candidates all failed has been served from
\* the loaded grid with an empty routes array.
C11_Witness ==
    /\ Served
    /\ call.raw_routes # <<>>
    /\ NoCandidateSurvives
    /\ call.load = "loaded"
    /\ call.output_format = "standard"
    /\ ret.value.routes = <<>>

RankedReturned ==
    /\ call.op \in {"get_safe_routes", "legacy_get_safe_routes"}
    /\ ret.status = "ok"

\* route is the SafetyRoute of the raw route raw
MadeFrom(route, raw) ==
    /\ raw.has_geometry
    /\ route.coordinates = raw.coordinates
    /\ route.distance_km = Norm(raw.distance, 1000)

\* C12: the list returned by get_safe_routes is ordered by non-increasing
\* safety_score, and routes with equal safety_score keep the order in which
\* the provider supplied them: the returned routes can be matched one to one
\* with candidates so that of two routes the earlier has the greater score,
\* or the same score and the earlier candidate.
C12_RankedBySafety ==
    RankedReturned =>
        LET routes == ret.value
            n == Len(routes)
        IN  /\ \A i, j \in 1 .. n :
                   i < j => RLe(routes[j].safety_score, routes[i].safety_score)
            /\ \E pos \in [1 .. n -> 1 .. Len(call.raw_routes)] :
                   /\ \A i \in 1 .. n : MadeFrom(routes[i], call.raw_routes[pos[i]])
                   /\ \A i, j \in 1 .. n :
                          i < j =>
                              \/ RLt(routes[j].safety_score, routes[i].safety_score)
                              \/ pos[i] < pos[j]

\* C12 witness: against the loaded grid, two different candidates of equal
\* safety_score have been returned in the order of the provider.
C12_Witness ==
    /\ RankedReturned
    /\ call.op = "get_safe_routes"
    /\ IsLoadedGrid(h3_safety_scores)
    /\ Len(ret.value) = 2
    /\ ret.value[1].safety_score = ret.value[2].safety_score
    /\ ret.value[1].coordinates = <<1>>
    /\ ret.value[2].coordinates = <<2>>

\* the positions of the candidates whose processing raises nothing
ProcessedCandidates ==
    {i \in 1 .. Len(call.raw_routes) : ~process_route_raises(call.raw_routes[i])}

\* the call returned a list that holds a route for each processed candidate
\* and nothing else
OnlyFailedRemoved ==
    /\ ret.status = "ok"
    /\ Len(ret.value) = Cardinality(ProcessedCandidates)
    /\ \A i \in ProcessedCandidates :
           \E j \in 1 .. Len(ret.value) : MadeFrom(ret.value[j], call.raw_routes[i])

\* C28: in get_safe_routes a failure while processing one candidate (missing
\* geometry, or a coordinate that cannot be converted to a cell) removes only
\* that candidate: every other candidate is scored and in the ranked list,
\* and the number of returned routes equals the number of candidates that
\* processed without error.
C28_OnlyFailedCandidateRemoved ==
    call.op \in {"get_safe_routes", "legacy_get_safe_routes"} /\ ret # NoRet
        => OnlyFailedRemoved

\* C28, for get_safe_routes of Map_backend alone: the statement holds of the
\* copy whose loop body is wrapped in try/except.
C28_MapBackendOnlyFailedRemoved ==
    call.op = "get_safe_routes" /\ ret # NoRet => OnlyFailedRemoved

\* C19: a failure while loading the grid from persistence is fatal to the
\* operation that requested it: when load_h3_scores_from_database fails
\* during a route request, that request reports an error rather than
\* returning routes scored against a substitute grid.
C19_LoadFailureIsReported ==
    Served /\ call.load = "failed" => "error" \in DOMAIN ret.value

----------------------------------------------------------------------------
(* Specification SpecLevel: get_safety_level on a drawn score, in steps of *)
(* one half from below 0 to above 100                                      *)

LevelScores == {Norm(k, 2) : k \in -20 .. 220}

InitLevel ==
    /\ incidents = <<>>
    /\ ServingStart
    /\ h3_safety_scores = EmptyDict
    /\ h3_table = NoTable
    /\ h3_scores_cache = NoCache
    /\ call \in [op : {"get_safety_level"}, score : LevelScores]
    /\ ret = NoRet

\* RouteFormatter.get_safety_level(score)
CallLevel ==
    /\ call.op = "get_safety_level"
    /\ ret = NoRet
    /\ ret' = Returned(get_safety_level(call.score))
    /\ UNCHANGED <<incidents, serving_state, h3_safety_scores, h3_table, h3_scores_cache, call>>

NextLevel == CallLevel

SpecLevel == InitLevel /\ [][NextLevel]_vars

LevelReturned == call.op = "get_safety_level" /\ ret.status = "ok"

\* lo <= score < hi
Between(lo, score, hi) == RLe(R(lo), score) /\ RLt(score, R(hi))

\* C13: get_safety_level maps every score to exactly one label with
\* inclusive lower thresholds: score >= 80 'Very Safe', 65 <= score < 80
\* 'Safe', 50 <= score < 65 'Moderate', 35 <= score < 50 'Caution Advised',
\* score < 35 'High Risk'.
C13_SafetyLevelThresholds ==
    LevelReturned =>
        /\ (ret.value = "Very Safe") = RLe(R(80), call.score)
        /\ (ret.value = "Safe") = Between(65, call.score, 80)
        /\ (ret.value = "Moderate") = Between(50, call.score, 65)
        /\ (ret.value = "Caution Advised") = Between(35, call.score, 50)
        /\ (ret.value = "High Risk") = RLt(call.score, R(35))

\* C13 witness: a score exactly on a threshold has been given the label of
\* the band above it.
C13_Witness ==
    /\ LevelReturned
    /\ call.score = R(65)
    /\ ret.value = "Safe"

----------------------------------------------------------------------------
(* Specification SpecRefresh: a lookup in one thread while another thread  *)
(* refreshes the grid of the same processor.  get_safety_score_for_location *)
(* reads self.h3_safety_scores three times: for the period test, for the   *)
(* cell test and for the score; a refresh assigns the attribute once, when *)
(* its new grid is complete, and may do so between any two of the reads.   *)
(* call.pc is the position of the lookup.  The processor starts with the   *)
(* grid loaded from the saved table or built from the incident table.      *)

RefreshPoints == {1, 3, 5}

RefreshCalls ==
    [op : {"get_safety_score_for_location"},
     p : RefreshPoints,
     time_period : LookupPeriods,
     pc : {"start"}]

InitRefresh ==
    /\ incidents \in SeqUpTo(LookupIncidentRows, MaxIncidents)
    /\ ServingStart
    /\ h3_table = SavedTable
    /\ h3_safety_scores \in {load_h3_scores_from_database(h3_table.rows),
                             calculate_h3_safety_scores(incidents)}
    /\ h3_scores_cache = NoCache
    /\ call \in RefreshCalls
    /\ ret = NoRet

\* `time_period in self.h3_safety_scores`
LookupCheckPeriod ==
    /\ call.pc = "start"
    /\ IF call.time_period \in DOMAIN h3_safety_scores
       THEN /\ call' = [call EXCEPT !.pc = "period_checked"]
            /\ ret' = NoRet
       ELSE /\ call' = [call EXCEPT !.pc = "done"]
            /\ ret' = Returned(default_scores(call.time_period))
    /\ UNCHANGED <<incidents, serving_state, h3_safety_scores, h3_table, h3_scores_cache>>

\* `h3_index in self.h3_safety_scores[time_period]`
LookupCheckCell ==
    /\ call.pc = "period_checked"
    /\ IF call.time_period \notin DOMAIN h3_safety_scores
       THEN /\ call' = [call EXCEPT !.pc = "done"]
            /\ ret' = Raised
       ELSE IF latlon_to_h3(call.p) \in DOMAIN h3_safety_scores[call.time_period]
       THEN /\ call' = [call EXCEPT !.pc = "cell_checked"]
            /\ ret' = NoRet
       ELSE /\ call' = [call EXCEPT !.pc = "done"]
            /\ ret' = Returned(default_scores(call.time_period))
    /\ UNCHANGED <<incidents, serving_state, h3_safety_scores, h3_table, h3_scores_cache>>

\* `return self.h3_safety_scores[time_period][h3_index]['safety_score']`
LookupReadScore ==
    /\ call.pc = "cell_checked"
    /\ call' = [call EXCEPT !.pc = "done"]
    /\ ret' = IF /\ call.time_period \in DOMAIN h3_safety_scores
                 /\ latlon_to_h3(call.p) \in DOMAIN h3_safety_scores[call.time_period]
              THEN Returned(h3_safety_scores[call.time_period]
                                [latlon_to_h3(call.p)].safety_score)
              ELSE Raised
    /\ UNCHANGED <<incidents, serving_state, h3_safety_scores, h3_table, h3_scores_cache>>

\* a refresh in the other thread, while the lookup is in flight
RefreshByCalculate == call.pc # "done" /\ Calculate

RefreshByLoad == call.pc # "done" /\ Load

NextRefresh ==
    \/ LookupCheckPeriod
    \/ LookupCheckCell
    \/ LookupReadScore
    \/ RefreshByCalculate
    \/ RefreshByLoad

SpecRefresh == InitRefresh /\ [][NextRefresh]_vars

\* the grids the processor can hold during the call: the one loaded from
\* the table and the one built from the incident table
GridsOfCall ==
    {load_h3_scores_from_database(h3_table.rows),
     calculate_h3_safety_scores(incidents)}

\* C17: when a grid refresh interleaves with an in-flight
\* get_safety_score_for_location call on the same processor, the lookup
\* completes without error and returns the lookup result of either the
\* entire old grid or the entire new grid, never a failure caused by the swap.
C17_LookupSeesOneGrid ==
    call.pc = "done" /\ ret # NoRet =>
        /\ ret.status = "ok"
        /\ \E scores \in GridsOfCall :
               ret.value = get_safety_score_for_location(scores, call.p,
                                                         call.time_period)

----------------------------------------------------------------------------
(* Specification SpecBorrow: the grid is built or loaded, and lookups,     *)
(* route scorings, rankings and recommendations follow one another in any  *)
(* order and number.  Each call draws its arguments; a recommendation is   *)
(* made of the list the last ranking returned.                             *)

BorrowPoints == {1, 3, 5}

BorrowRoutes == {<<>>, <<NaN>>, <<1, 2, 3>>, <<5, NaN>>}

BorrowRawRoutes ==
    {RawRoute(TRUE, <<1>>, 10000),
     RawRoute(TRUE, <<1, 2, 3>>, 5000),
     RawRoute(TRUE, <<1, NaN>>, 5000)}

InitBorrow ==
    /\ incidents = ServeIncidents
    /\ ServingStart
    /\ h3_safety_scores = EmptyDict
    /\ h3_table = SavedTable
    /\ h3_scores_cache = NoCache
    /\ call = NoCall
    /\ ret = NoRet

\* a slip: the lookup stores the default it returns for a missing entry
BorrowLookupStoringDefault ==
    \E p \in BorrowPoints, time_period \in LookupPeriods :
        LET h3_index == latlon_to_h3(p)
            score == get_safety_score_for_location(h3_safety_scores, p, time_period)
            stored == /\ time_period \in DOMAIN h3_safety_scores
                      /\ h3_index \in DOMAIN h3_safety_scores[time_period]
        IN  /\ call' = [op |-> "get_safety_score_for_location",
                        p |-> p, time_period |-> time_period]
            /\ ret' = Returned(score)
            /\ h3_safety_scores' =
                  IF stored \/ time_period \notin DOMAIN h3_safety_scores
                  THEN h3_safety_scores
                  ELSE [h3_safety_scores EXCEPT ![time_period] =
                           [c \in DOMAIN @ \cup {h3_index} |->
                               IF c = h3_index THEN [safety_score |-> score]
                               ELSE @[c]]]
            /\ UNCHANGED <<incidents, serving_state, h3_table, h3_scores_cache>>

\* H3SafetyProcessor.get_safety_score_for_location
BorrowLookup ==
    \E p \in BorrowPoints, time_period \in LookupPeriods :
        /\ call' = [op |-> "get_safety_score_for_location",
                    p |-> p, time_period |-> time_period]
        /\ ret' = Returned(get_safety_score_for_location(h3_safety_scores,
                                                         p, time_period))
        /\ UNCHANGED <<incidents, serving_state, h3_safety_scores, h3_table, h3_scores_cache>>

\* SafetyCalculator.calculate_route_safety
BorrowScoreRoute ==
    \E route_coords \in BorrowRoutes, time_period \in LookupPeriods :
        /\ call' = [op |-> "calculate_route_safety",
                    route_coords |-> route_coords, time_period |-> time_period]
        /\ ret' = Returned(calculate_route_safety(h3_safety_scores,
                                                  route_coords, time_period))
        /\ UNCHANGED <<incidents, serving_state, h3_safety_scores, h3_table, h3_scores_cache>>

\* RouteProcessor.get_safe_routes
BorrowGetSafeRoutes ==
    \E raw_routes \in SeqUpTo(BorrowRawRoutes, MaxCandidates),
       time_period \in ServePeriods :
        /\ call' = [op |-> "get_safe_routes",
                    raw_routes |-> raw_routes, time_period |-> time_period]
        /\ ret' = Returned(get_safe_routes(h3_safety_scores, raw_routes,
                                           time_period))
        /\ UNCHANGED <<incidents, serving_state, h3_safety_scores, h3_table, h3_scores_cache>>

\* RouteFormatter.get_route_recommendation of the list just ranked
BorrowRecommend ==
    /\ call.op = "get_safe_routes"
    /\ ret.status = "ok"
    /\ call' = [op |-> "get_route_recommendation", routes |-> ret.value]
    /\ ret' = Returned(get_route_recommendation(ret.value))
    /\ UNCHANGED <<incidents, serving_state, h3_safety_scores, h3_table, h3_scores_cache>>

NextBorrow ==
    \/ Calculate
    \/ Load
    \/ BorrowLookup
    \/ BorrowScoreRoute
    \/ BorrowGetSafeRoutes
    \/ BorrowRecommend

SpecBorrow == InitBorrow /\ [][NextBorrow]_vars

BorrowOps ==
    {"get_safety_score_for_location", "calculate_route_safety",
     "get_safe_routes", "get_route_recommendation"}

\* the grid's cells and every record stored for them
GridContents == <<h3_safety_scores, h3_scores_cache>>

\* C18: get_safety_score_for_location, calculate_route_safety,
\* get_safe_routes and get_route_recommendation leave the grid unchanged:
\* every step in which one of them returns, with any points and buckets,
\* leaves the grid's set of cells and every stored score as they were.
C18_CallsLeaveGridUnchanged ==
    [][ret' # NoRet /\ call'.op \in BorrowOps => GridContents' = GridContents]_vars

\* C18 witness: after a load, a lookup of an unseen cell under an unknown
\* bucket name has returned.
C18_Witness ==
    /\ IsLoadedGrid(h3_safety_scores)
    /\ ret # NoRet
    /\ call.op = "get_safety_score_for_location"
    /\ call.p = 5
    /\ call.time_period = "evening"

\* C26: on the ranked list get_safe_routes produces, get_route_recommendation
\* returns an index that is a position of the list; the index is 0, and
\* routes[0] has the maximum safety_score, whenever the reason is 'Best
\* combination' or 'Prioritizing safety'; the index differs from 0 only with
\* the reason 'Good balance', and then designates a route of minimum
\* distance_km.
C26_RecommendationOnRankedList ==
    call.op = "get_route_recommendation" /\ ret # NoRet /\ call.routes # <<>> =>
        LET routes == call.routes
            index == ret.value.recommended_route
            reason == ret.value.reason
        IN  /\ ret.status = "ok"
            /\ index \in 0 .. Len(routes) - 1
            /\ reason \in {BestCombination, PrioritizingSafety} =>
                   /\ index = 0
                   /\ \A i \in 1 .. Len(routes) :
                          RLe(routes[i].safety_score, routes[1].safety_score)
            /\ index # 0 =>
                   /\ reason = GoodBalance
                   /\ \A i \in 1 .. Len(routes) :
                          RLe(routes[index + 1].distance_km, routes[i].distance_km)

\* C26 witness: of two ranked routes of equal safety the second, shorter one
\* is recommended as a good balance.
C26_Witness ==
    /\ call.op = "get_route_recommendation"
    /\ ret # NoRet
    /\ Len(call.routes) = 2
    /\ call.routes[1].safety_score = call.routes[2].safety_score
    /\ RLt(call.routes[2].distance_km, call.routes[1].distance_km)
    /\ ret.value = [recommended_route |-> 1, reason |-> GoodBalance]

\* C26 witness of the other side: the safest route leads the list and is
\* recommended over a shorter one that is more than 15 points less safe.
C26_WitnessSafest ==
    /\ call.op = "get_route_recommendation"
    /\ ret # NoRet
    /\ Len(call.routes) = 2
    /\ RLt(call.routes[2].distance_km, call.routes[1].distance_km)
    /\ ret.value = [recommended_route |-> 0, reason |-> PrioritizingSafety]

\* the distinct cells of the points of a route that convert to a cell
CellsOfRoute(route_coords) ==
    {latlon_to_h3(route_coords[k]) :
        k \in {j \in 1 .. Len(route_coords) : ValidPoint(route_coords[j])}}

\* the breakdown b of a route is ordered and counts the route's cells
ConsistentBreakdown(b, route_coords) ==
    /\ RLe(R(0), b.min_safety)
    /\ RLe(b.min_safety, b.overall_safety)
    /\ RLe(b.overall_safety, b.max_safety)
    /\ RLe(b.max_safety, R(100))
    /\ RLe(R(0), b.safety_variance)
    /\ b.h3_count = Cardinality(CellsOfRoute(route_coords))
    /\ b.h3_count = 0 <=> b = NeutralBreakdown

C29_WitnessNeutral ==
    /\ call.op = "calculate_route_safety"
    /\ ret # NoRet
    /\ call.route_coords # <<>>
    /\ ret.value = NeutralBreakdown

----------------------------------------------------------------------------
(* Specification SpecPersist: builds, saves and loads on a processor and   *)
(* the construction of route processors, in any order, with the result of  *)
(* each save and load.  db_ok = FALSE is a database call that raises.      *)

InitPersist ==
    /\ incidents \in SeqUpTo(LookupIncidentRows, MaxIncidents)
    /\ ServingStart
    /\ h3_safety_scores = EmptyDict
    /\ h3_table = NoTable
    /\ h3_scores_cache = NoCache
    /\ call = NoCall
    /\ ret = NoRet

\* a slip: the load empties the grid before it reads the table
LoadCallClearingFirst ==
    \E db_ok \in BOOLEAN :
        /\ call' = [op |-> "load_h3_scores_from_database"]
        /\ IF load_raises(db_ok)
           THEN /\ h3_safety_scores' = FallbackScores
                /\ ret' = Raised
           ELSE /\ h3_safety_scores' = load_h3_scores_from_database(h3_table.rows)
                /\ ret' = Returned(TRUE)
        /\ UNCHANGED <<incidents, serving_state, h3_table, h3_scores_cache>>

\* H3SafetyProcessor.load_h3_scores_from_database, with its result
LoadCall ==
    \E db_ok \in BOOLEAN :
        /\ call' = [op |-> "load_h3_scores_from_database"]
        /\ IF load_raises(db_ok)
           THEN /\ UNCHANGED h3_safety_scores
                /\ ret' = Raised
           ELSE /\ h3_safety_scores' = load_h3_scores_from_database(h3_table.rows)
                /\ ret' = Returned(TRUE)
        /\ UNCHANGED <<incidents, serving_state, h3_table, h3_scores_cache>>

\* H3SafetyProcessor.save_h3_scores_to_database, with its result
SaveCall ==
    \E db_ok \in BOOLEAN :
        /\ call' = [op |-> "save_h3_scores_to_database"]
        /\ h3_table' =
              IF ~db_ok THEN h3_table
              ELSE IF save_raises(h3_safety_scores)
                   THEN (IF h3_table.exists THEN h3_table ELSE Table(EmptyDict))
                   ELSE Table(InsertData(h3_safety_scores))
        /\ ret' = IF ~db_ok \/ save_raises(h3_safety_scores) THEN Raised
                  ELSE Returned(TRUE)
        /\ UNCHANGED <<incidents, serving_state, h3_safety_scores, h3_scores_cache>>

NextPersist ==
    \/ NewProcessor
    \/ Calculate
    \/ LoadCall
    \/ SaveCall
    \/ RouteProcessorInit

SpecPersist == InitPersist /\ [][NextPersist]_vars

PersistOps == {"load_h3_scores_from_database", "save_h3_scores_to_database"}

----------------------------------------------------------------------------
(* RouteAPIClient (Map_backend): get_ors_routes and the lru_cache of       *)
(* _cached_ors_routes; RouteProcessor.get_routes_from_ors of               *)
(* map/route_processer.py                                                  *)

maxsize == 2            \* entries the lru_cache holds (128 in the source)
MaxFetches == 3         \* most requests posted to openrouteservice

Alternatives == 2       \* num_alternatives, by its default

\* openrouteservice answers with routes ("up"), with a network error or an
\* error status ("down"), or with a body that has no usable 'routes'
\* ("malformed")
ProviderStates == {"up", "down", "malformed"}

\* the converted routes of an answer for a trip: the direct route and one
\* alternative through another cell
OrsRoutes(start, end) ==
    <<RawRoute(TRUE, <<start, end>>, 5000),
      RawRoute(TRUE, <<start, 5, end>>, 8000)>>

\* the body of _cached_ors_routes: `except Exception` and the missing
\* 'routes' key both return []
cached_ors_routes_body(state, start, end) ==
    IF state = "up" THEN OrsRoutes(start, end) ELSE <<>>

\* the arguments lru_cache keys on
CacheKey(api_key, start, end, alternatives) ==
    <<api_key, start, end, alternatives>>

\* the position of the key's entry in the cache, 0 without one; the cache
\* is kept from the least to the most recently used entry
CachePos(cache, key) ==
    IF \E i \in 1 .. Len(cache) : cache[i].key = key
    THEN CHOOSE i \in 1 .. Len(cache) : cache[i].key = key
    ELSE 0

\* a hit makes the entry the most recently used
lru_hit(cache, i) ==
    SubSeq(cache, 1, i - 1) \o SubSeq(cache, i + 1, Len(cache)) \o <<cache[i]>>

\* a caching slip: only answers with routes are stored
lru_store_routes_only(cache, key, value) ==
    IF value = <<>> THEN cache
    ELSE (IF Len(cache) >= maxsize THEN Tail(cache) ELSE cache)
         \o <<[key |-> key, value |-> value]>>

\* a miss stores what the body returned, evicting the least recently used
\* entry of a full cache
lru_store(cache, key, value) ==
    (IF Len(cache) >= maxsize THEN Tail(cache) ELSE cache)
    \o <<[key |-> key, value |-> value]>>

\* RouteAPIClient.get_ors_routes: the routes returned, the cache left and
\* what became of the fetch
get_ors_routes(api_key, cache, state, start, end, alternatives) ==
    IF api_key = NoKey
    THEN [routes |-> <<>>, ors_cache |-> cache, fetch |-> "no_key"]
    ELSE LET key == CacheKey(api_key, start, end, alternatives)
             i == CachePos(cache, key)
             value == cached_ors_routes_body(state, start, end)
         IN  IF i # 0
             THEN [routes |-> cache[i].value, ors_cache |-> lru_hit(cache, i),
                   fetch |-> "hit"]
             ELSE [routes |-> value, ors_cache |-> lru_store(cache, key, value),
                   fetch |-> IF state = "up" THEN "fetched" ELSE "failed"]

\* the fetch posted a request to openrouteservice
Contacted(fetch) == fetch \in {"fetched", "failed"}

\* _calculate_distance, in km: the points lie 5 km apart on a line
calculate_distance(start, end) == 5 * Abs(start - end)

\* _generate_mock_routes: the direct route and the alternatives through an
\* offset midpoint
generate_mock_routes(start, end, alternatives) ==
    <<[has_geometry |-> TRUE, coordinates |-> <<start, end>>,
       distance |-> calculate_distance(start, end) * 1000,
       duration |-> calculate_distance(start, end) * 60]>>
    \o [i \in 1 .. alternatives |->
           [has_geometry |-> TRUE,
            coordinates |-> <<start, (start + end) \div 2 + i, end>>,
            distance |-> calculate_distance(start, end) * 1200,
            duration |-> calculate_distance(start, end) * 70]]

\* RouteProcessor.get_routes_from_ors (map/route_processer.py): mock routes
\* without a key and on every failure, nothing memoized
legacy_get_routes_from_ors(api_key, state, start, end, alternatives) ==
    IF api_key = NoKey \/ state # "up"
    THEN generate_mock_routes(start, end, alternatives)
    ELSE OrsRoutes(start, end)

legacy_fetch(api_key, state) ==
    IF api_key = NoKey THEN "no_key"
    ELSE IF state = "up" THEN "fetched" ELSE "failed"

\* format_routes_for_frontend of map/route_processer.py
legacy_format_routes_for_frontend(routes) ==
    [routes |-> [i \in 1 .. Len(routes) |->
                    [id |-> i - 1,
                     name |-> i,
                     coordinates |-> routes[i].coordinates,
                     safety_score |-> PyRound(routes[i].safety_score, 2),
                     safety_level |-> get_safety_level(routes[i].safety_score),
                     distance_km |-> PyRound(routes[i].distance_km, 2),
                     duration_minutes |-> PyRound(routes[i].duration_minutes, 1),
                     h3_indices_count |-> Cardinality(routes[i].h3_indices),
                     safety_breakdown |-> FormattedBreakdown(routes[i])]],
     recommendation |-> get_route_recommendation(routes)]

----------------------------------------------------------------------------
(* Specification SpecFetch: a serving process with or without an api key.  *)
(* Requests for a few trips follow one another while openrouteservice      *)
(* changes between answering, failing and answering malformed bodies.      *)

Trips == {<<1, 3>>, <<3, 1>>, <<1, 5>>}

InitFetch ==
    /\ incidents = ServeIncidents
    /\ h3_safety_scores = EmptyDict
    /\ h3_table = SavedTable
    /\ h3_scores_cache = NoCache
    /\ call = NoCall
    /\ ret = NoRet
    /\ ors_api_key \in {NoKey, "key"}
    /\ ors_cache = <<>>
    /\ provider \in ProviderStates
    /\ fetches = 0
    /\ instances = [t \in Threads |-> NotConstructing]

\* openrouteservice starts or stops answering properly
ProviderChanges ==
    /\ \E state \in ProviderStates \ {provider} : provider' = state
    /\ UNCHANGED <<incidents, h3_safety_scores, h3_table, h3_scores_cache,
                   call, ret, ors_api_key, ors_cache, fetches, instances>>

\* RouteAPIClient.get_ors_routes(start, end, alternatives)
GetOrsRoutes ==
    \E trip \in Trips :
        LET fetched == get_ors_routes(ors_api_key, ors_cache, provider,
                                      trip[1], trip[2], Alternatives)
        IN  /\ Contacted(fetched.fetch) => fetches < MaxFetches
            /\ call' = [op |-> "get_ors_routes", start |-> trip[1],
                        end |-> trip[2], fetch |-> fetched.fetch]
            /\ ret' = Returned(fetched.routes)
            /\ ors_cache' = fetched.ors_cache
            /\ fetches' = IF Contacted(fetched.fetch) THEN fetches + 1 ELSE fetches
            /\ UNCHANGED <<incidents, h3_safety_scores, h3_table,
                           h3_scores_cache, ors_api_key, provider, instances>>

\* get_route_with_safety (Map_backend) for a trip: constructs a
\* RouteProcessor, fetches the candidates, ranks them for the default
\* period and formats them
RouteRequest ==
    \E trip \in Trips, db_ok \in BOOLEAN :
        LET scores == RouteProcessorScores(db_ok)
            fetched == get_ors_routes(ors_api_key, ors_cache, provider,
                                      trip[1], trip[2], Alternatives)
            routes == get_safe_routes(scores, fetched.routes, "overall")
        IN  /\ Contacted(fetched.fetch) => fetches < MaxFetches
            /\ h3_safety_scores' = scores
            /\ h3_scores_cache' = Cached(scores)
            /\ call' = [op |-> "get_route_with_safety", start |-> trip[1],
                        end |-> trip[2], fetch |-> fetched.fetch]
            /\ ret' = Returned(format_routes_for_frontend(routes, "standard"))
            /\ ors_cache' = fetched.ors_cache
            /\ fetches' = IF Contacted(fetched.fetch) THEN fetches + 1 ELSE fetches
            /\ UNCHANGED <<incidents, h3_table, ors_api_key, provider, instances>>

\* get_route_with_safety of map/route_processer.py for a trip: builds the
\* grid, fetches or mocks the candidates, ranks and formats them
LegacyRouteRequest ==
    \E trip \in Trips, db_ok \in BOOLEAN :
        LET scores == IF db_ok /\ ~preprocess_raises(incidents)
                      THEN calculate_h3_safety_scores(incidents)
                      ELSE FallbackScores
            fetch == legacy_fetch(ors_api_key, provider)
            raw_routes == legacy_get_routes_from_ors(ors_api_key, provider,
                              trip[1], trip[2], Alternatives)
        IN  /\ Contacted(fetch) => fetches < MaxFetches
            /\ h3_safety_scores' = scores
            /\ call' = [op |-> "legacy_get_route_with_safety",
                        start |-> trip[1], end |-> trip[2], fetch |-> fetch]
            /\ ret' = IF legacy_get_safe_routes_raises(raw_routes) THEN Raised
                      ELSE Returned(legacy_format_routes_for_frontend(
                               legacy_get_safe_routes(scores, raw_routes,
                                                      "overall")))
            /\ fetches' = IF Contacted(fetch) THEN fetches + 1 ELSE fetches
            /\ UNCHANGED <<incidents, h3_table, h3_scores_cache, ors_api_key,
                           ors_cache, provider, instances>>

NextFetch ==
    \/ ProviderChanges
    \/ GetOrsRoutes
    \/ RouteRequest
    \/ LegacyRouteRequest

SpecFetch == InitFetch /\ [][NextFetch]_vars

----------------------------------------------------------------------------
(* Claims on the route client, checked under SpecFetch *)

\* the request found no provider (no key) or its fetch failed
ProviderAbsentOrFailed == call.fetch \in {"no_key", "failed"}

\* an empty routes list with the 'No routes available' recommendation or an
\* error string
NoRoutesWithMessage ==
    /\ ret.status = "ok"
    /\ ret.value.routes = <<>>
    /\ \/ "error" \in DOMAIN ret.value
       \/ ret.value.recommendation = NoRoutesSignal

\* C21: when the route-geometry provider is absent (no api key) or fails
\* (network error, bad status, malformed response), get_route_with_safety
\* does not raise: it yields zero candidate routes and returns an empty
\* routes list together with a message.
C21_ProviderFailureYieldsNoRoutes ==
    call.op \in {"get_route_with_safety", "legacy_get_route_with_safety"}
    /\ ProviderAbsentOrFailed
        => NoRoutesWithMessage

\* C21, for get_route_with_safety of Map_backend alone: the statement holds
\* of the copy whose client returns [] without a key and on every failure.
C21_MapBackendYieldsNoRoutes ==
    call.op = "get_route_with_safety" /\ ProviderAbsentOrFailed
        => NoRoutesWithMessage

\* the step is a return of get_ors_routes
GetOrsRoutesReturns ==
    /\ call'.op = "get_ors_routes"
    /\ provider' = provider
    /\ <<call', ret', ors_cache', fetches'>> # <<call, ret, ors_cache, fetches>>

\* the key of the get_ors_routes call that returns
ReturningKey == CacheKey(ors_api_key, call'.start, call'.end, Alternatives)

\* C27: route-geometry fetches are memoized per (api key, start, end,
\* alternative count) in a cache of at most maxsize entries, a failed fetch
\* like a successful one: a get_ors_routes call whose key has an entry
\* returns the entry's value, the empty list of a failed fetch included,
\* without contacting the provider, whatever the provider would answer now;
\* a call with a key and without an entry contacts the provider once and
\* leaves an entry with what it returned.
C27_FetchesMemoized ==
    [][GetOrsRoutesReturns /\ ors_api_key # NoKey =>
          LET i == CachePos(ors_cache, ReturningKey)
              j == CachePos(ors_cache', ReturningKey)
          IN  /\ Len(ors_cache') <= maxsize
              /\ \A m, n \in 1 .. Len(ors_cache') :
                     ors_cache'[m].key = ors_cache'[n].key => m = n
              /\ j # 0
              /\ ors_cache'[j].value = ret'.value
              /\ i # 0 => /\ ret'.value = ors_cache[i].value
                          /\ fetches' = fetches
              /\ i = 0 => fetches' = fetches + 1]_vars

\* C27 witness: a call whose fetch had failed returns the empty list from
\* the cache while the provider is answering again, and another key has
\* been fetched since.
C27_Witness ==
    /\ call.op = "get_ors_routes"
    /\ call.fetch = "hit"
    /\ ret.value = <<>>
    /\ provider = "up"
    /\ Len(ors_cache) = maxsize
    /\ \E i \in 1 .. Len(ors_cache) : ors_cache[i].value # <<>>

----------------------------------------------------------------------------
(* Specification SpecConstruct: threads of one serving process construct   *)
(* RouteProcessor() at the same time, a thread being suspended between any *)
(* two of the constructor's statements, while a run of main() builds and   *)
(* saves the table.  instances[t] is thread t's place in the constructor,  *)
(* the grid of its processor, and whether it called the load.              *)

InitConstruct ==
    /\ incidents = ServeIncidents
    /\ h3_safety_scores = EmptyDict
    /\ h3_table \in {NoTable, SavedTable}
    /\ h3_scores_cache = NoCache
    /\ call = NoCall
    /\ ret = NoRet
    /\ ors_api_key = NoKey
    /\ ors_cache = <<>>
    /\ provider = "up"
    /\ fetches = 0
    /\ instances = [t \in Threads |-> NotConstructing]

\* line 352: `if RouteProcessor._h3_scores_cache is None`, and line 360 when
\* it is not
ConstructorTestsCache(t) ==
    /\ instances[t].pc = "start"
    /\ instances' =
          [instances EXCEPT ![t] =
              IF h3_scores_cache = NoCache
              THEN [@ EXCEPT !.pc = "load"]
              ELSE [@ EXCEPT !.pc = "done", !.scores = h3_scores_cache.scores]]
    /\ UNCHANGED <<incidents, h3_safety_scores, h3_table, h3_scores_cache,
                   call, ret, ors_api_key, ors_cache, provider, fetches>>

\* line 354, or line 357 when the load raises
ConstructorLoads(t) ==
    \E db_ok \in BOOLEAN :
        /\ instances[t].pc = "load"
        /\ instances' =
              [instances EXCEPT ![t] =
                  [pc |-> "assign",
                   scores |-> IF load_raises(db_ok) THEN FallbackScores
                              ELSE load_h3_scores_from_database(h3_table.rows),
                   loaded |-> TRUE]]
        /\ UNCHANGED <<incidents, h3_safety_scores, h3_table, h3_scores_cache,
                       call, ret, ors_api_key, ors_cache, provider, fetches>>

\* line 355 or 358: `RouteProcessor._h3_scores_cache = ...`
ConstructorAssignsCache(t) ==
    /\ instances[t].pc = "assign"
    /\ h3_scores_cache' = Cached(instances[t].scores)
    /\ instances' = [instances EXCEPT ![t].pc = "done"]
    /\ UNCHANGED <<incidents, h3_safety_scores, h3_table, call, ret,
                   ors_api_key, ors_cache, provider, fetches>>

NextConstruct ==
    \/ Calculate
    \/ Save
    \/ \E t \in Threads : ConstructorTestsCache(t)
    \/ \E t \in Threads : ConstructorLoads(t)
    \/ \E t \in Threads : ConstructorAssignsCache(t)

SpecConstruct == InitConstruct /\ [][NextConstruct]_vars

----------------------------------------------------------------------------
(* Claims on the construction, checked under SpecConstruct *)

\* the threads whose constructor called load_h3_scores_from_database
LoadingThreads == {t \in Threads : instances[t].loaded}

Constructed == {t \in Threads : instances[t].pc = "done"}

\* C24: within one serving process the grid is loaded from persistence at
\* most once, however many RouteProcessor instances are constructed and even
\* when several are constructed at the same time, and every instance scores
\* routes against the same single grid snapshot.
C24_GridLoadedOnce ==
    /\ Cardinality(LoadingThreads) <= 1
    /\ \A t, u \in Constructed : instances[t].scores = instances[u].scores

====
